---- MODULE Spec2Model ----
(***************************************************************************)
(* Verification model of the infographic layout and rendering core:       *)
(* content measurement, the layout strategies, overlap resolution, the     *)
(* connection handling of the renderers, path interpolation and auto-crop. *)
(* Node ids are modelled as small naturals; a box is <<x, y, w, h>>.       *)
(***************************************************************************)
EXTENDS Integers, Sequences, FiniteSets, TLC

VARIABLES
    lay_call,    \* the layout request: strategy that ran ("none" before) and its arguments
    lay_pos,     \* the position map the strategy returned: node id -> <<x, y, w, h>>
    ro_stage,    \* resolve_overlaps: "input", "once" (resolved) or "twice" (resolved again)
    ro_in,       \* the position map passed to resolve_overlaps, in key order
    ro_mi,       \* the max_iterations argument
    ro_once,     \* outcome of the first call: positions, passes run, last pass's moved flag
    ro_twice,    \* outcome of calling it again on the first result
    ip_stage,    \* _interpolate_along_path: "input" or "done"
    ip_path,     \* the waypoints passed to it
    ip_t,        \* the parameter t, counted in halves: 0, 1 or 2
    ip_out,      \* the point it returned, or None
    me_stage,    \* measure_node_content_height: "input", "once" or "twice" (measured again)
    me_in,       \* its arguments, with a second description for the second call
    me_out,      \* the heights the two calls returned
    fr_stage,    \* "input" before the call, "running" in the loop of layout_force_directed, "done" after it
    fr_fn,       \* the call: the function, the objects its names refer to, the iteration of its loop
    fr_before,   \* the objects passed to the call, as they were when it started
    fr_heap,     \* the objects after the call, by reference
    fr_ret,      \* the reference the call returned
    mr_stage,    \* _manhattan_route: "input" or "done"
    mr_in,       \* its arguments: start, end and direction
    mr_out,      \* the waypoints it returned
    dc_stage,    \* draw_connection: "input" or "done"
    dc_in,       \* its arguments: start, end, style, routing and whether a label is passed
    dc_out,      \* the primitives it drew on the canvas, in order
    dn_stage,    \* draw_node: "input" or "done"
    dn_in,       \* its arguments: the box height, the shape, the icon flag and the description
    dn_out,      \* what it drew, in order
    fd_stage,    \* layout_force_directed: "input", "simulating" or "done"
    fd_in,       \* its arguments (number of nodes, canvas, connections) and the random module before the call
    fd_sim,      \* the random module after the seeding, and the simulation: iterations done, repulsion_k, pos_x, pos_y
    fd_out,      \* the boxes it returned, in node order
    sc_stage,    \* a layout call on a scene: "input" or "done"
    sc_in,       \* the scene: its number of nodes and the member lists of its layers or zones
    sc_fn,       \* the strategy that was called
    sc_out,      \* the position map it returned
    fo_stage,    \* fan-out of one source node: "input" or "done"
    fo_in,       \* the box of the source, the targets of its connections in one vertical direction, and the direction
    fo_out,      \* the exit point of each of these connections, in connection order
    ac_stage,    \* position of the auto-crop call
    ac_in,       \* the image, the background colour being subtracted, and the margin
    ac_out,      \* the image _auto_crop returned
    dg_stage,    \* position of the rendering of the connections
    dg_in,       \* the scene: its node ids and its connections
    dg_out,      \* the arrows drawn
    sd_stage,    \* the call the rendering process is in or has finished: [at, call, ...]
    sd_rng,      \* the state of the process-wide random module
    sd_log,      \* the finished call kept for comparison, and whether others followed it
    rp_stage,    \* position of the pipeline rendering
    rp_in,       \* the scene and the canvas of the rendering
    rp_out,      \* the stage cards drawn and whether the drawing raised
    dl_stage,    \* position of the drawing of the numbered arrows
    dl_in,       \* the layered scene, its connections, and the dangling connection added
    dl_out,      \* the arrows drawn without and with the dangling connection
    lp_stage,    \* label pill: idle, input or done
    lp_in,       \* the line colour, six hexadecimal digits
    lp_out,      \* the pill drawn: [fill, outline, text]
    am_stage,    \* animation: idle, input or done
    am_in,       \* the scene and the canvas
    am_out,      \* boxes and arrow ends: [drawn, animated]
    pl_stage,    \* pipeline run: idle, or the await or return the run has reached
    pl_ctx,      \* the PipelineContext
    pl_env,      \* quality flag, clock, agent start, propagating exception, quality report
    pl_out       \* to_summary() and total_time after the run

layVars == <<lay_call, lay_pos>>
roVars == <<ro_stage, ro_in, ro_mi, ro_once, ro_twice>>
ipVars == <<ip_stage, ip_path, ip_t, ip_out>>
meVars == <<me_stage, me_in, me_out>>
frVars == <<fr_stage, fr_fn, fr_before, fr_heap, fr_ret>>
mrVars == <<mr_stage, mr_in, mr_out>>
dcVars == <<dc_stage, dc_in, dc_out>>
dnVars == <<dn_stage, dn_in, dn_out>>
fdVars == <<fd_stage, fd_in, fd_sim, fd_out>>
scVars == <<sc_stage, sc_in, sc_fn, sc_out>>
foVars == <<fo_stage, fo_in, fo_out>>
acVars == <<ac_stage, ac_in, ac_out>>
dgVars == <<dg_stage, dg_in, dg_out>>
sdVars == <<sd_stage, sd_rng, sd_log>>
rpVars == <<rp_stage, rp_in, rp_out>>
dlVars == <<dl_stage, dl_in, dl_out>>
lpVars == <<lp_stage, lp_in, lp_out>>
amVars == <<am_stage, am_in, am_out>>
plVars == <<pl_stage, pl_ctx, pl_env, pl_out>>
vars == <<lay_call, lay_pos, ro_stage, ro_in, ro_mi, ro_once, ro_twice, ip_stage,
          ip_path, ip_t, ip_out, me_stage, me_in, me_out, fr_stage, fr_fn, fr_before,
          fr_heap, fr_ret, mr_stage, mr_in, mr_out, dc_stage, dc_in, dc_out, dn_stage,
          dn_in, dn_out, fd_stage, fd_in, fd_sim, fd_out, sc_stage, sc_in, sc_fn,
          sc_out, fo_stage, fo_in, fo_out, ac_stage, ac_in, ac_out, dg_stage, dg_in,
          dg_out, sd_stage, sd_rng, sd_log, rp_stage, rp_in, rp_out, dl_stage, dl_in,
          dl_out, lp_stage, lp_in, lp_out, am_stage, am_in, am_out, pl_stage, pl_ctx,
          pl_env, pl_out>>

notLay == <<roVars, ipVars, meVars, frVars, mrVars, dcVars, dnVars, fdVars, scVars, foVars, acVars, dgVars, sdVars, rpVars, dlVars, lpVars, amVars, plVars>>
notRo == <<layVars, ipVars, meVars, frVars, mrVars, dcVars, dnVars, fdVars, scVars, foVars, acVars, dgVars, sdVars, rpVars, dlVars, lpVars, amVars, plVars>>
notIp == <<layVars, roVars, meVars, frVars, mrVars, dcVars, dnVars, fdVars, scVars, foVars, acVars, dgVars, sdVars, rpVars, dlVars, lpVars, amVars, plVars>>
notMe == <<layVars, roVars, ipVars, frVars, mrVars, dcVars, dnVars, fdVars, scVars, foVars, acVars, dgVars, sdVars, rpVars, dlVars, lpVars, amVars, plVars>>
notFr == <<layVars, roVars, ipVars, meVars, mrVars, dcVars, dnVars, fdVars, scVars, foVars, acVars, dgVars, sdVars, rpVars, dlVars, lpVars, amVars, plVars>>
notMr == <<layVars, roVars, ipVars, meVars, frVars, dcVars, dnVars, fdVars, scVars, foVars, acVars, dgVars, sdVars, rpVars, dlVars, lpVars, amVars, plVars>>
notDc == <<layVars, roVars, ipVars, meVars, frVars, mrVars, dnVars, fdVars, scVars, foVars, acVars, dgVars, sdVars, rpVars, dlVars, lpVars, amVars, plVars>>
notDn == <<layVars, roVars, ipVars, meVars, frVars, mrVars, dcVars, fdVars, scVars, foVars, acVars, dgVars, sdVars, rpVars, dlVars, lpVars, amVars, plVars>>
notFd == <<layVars, roVars, ipVars, meVars, frVars, mrVars, dcVars, dnVars, scVars, foVars, acVars, dgVars, sdVars, rpVars, dlVars, lpVars, amVars, plVars>>
notSc == <<layVars, roVars, ipVars, meVars, frVars, mrVars, dcVars, dnVars, fdVars, foVars, acVars, dgVars, sdVars, rpVars, dlVars, lpVars, amVars, plVars>>
notFo == <<layVars, roVars, ipVars, meVars, frVars, mrVars, dcVars, dnVars, fdVars, scVars, acVars, dgVars, sdVars, rpVars, dlVars, lpVars, amVars, plVars>>
notAc == <<layVars, roVars, ipVars, meVars, frVars, mrVars, dcVars, dnVars, fdVars, scVars, foVars, dgVars, sdVars, rpVars, dlVars, lpVars, amVars, plVars>>
notDg == <<layVars, roVars, ipVars, meVars, frVars, mrVars, dcVars, dnVars, fdVars, scVars, foVars, acVars, sdVars, rpVars, dlVars, lpVars, amVars, plVars>>
notSd == <<layVars, roVars, ipVars, meVars, frVars, mrVars, dcVars, dnVars, fdVars, scVars, foVars, acVars, dgVars, rpVars, dlVars, lpVars, amVars, plVars>>
notRp == <<layVars, roVars, ipVars, meVars, frVars, mrVars, dcVars, dnVars, fdVars, scVars, foVars, acVars, dgVars, sdVars, dlVars, lpVars, amVars, plVars>>
notDl == <<layVars, roVars, ipVars, meVars, frVars, mrVars, dcVars, dnVars, fdVars, scVars, foVars, acVars, dgVars, sdVars, rpVars, lpVars, amVars, plVars>>
notLp == <<layVars, roVars, ipVars, meVars, frVars, mrVars, dcVars, dnVars, fdVars, scVars, foVars, acVars, dgVars, sdVars, rpVars, dlVars, amVars, plVars>>
notAm == <<layVars, roVars, ipVars, meVars, frVars, mrVars, dcVars, dnVars, fdVars, scVars, foVars, acVars, dgVars, sdVars, rpVars, dlVars, lpVars, plVars>>
notPl == <<layVars, roVars, ipVars, meVars, frVars, mrVars, dcVars, dnVars, fdVars, scVars, foVars, acVars, dgVars, sdVars, rpVars, dlVars, lpVars, amVars>>

(***************************************************************************)
(* Bounds of the model                                                     *)
(***************************************************************************)
MaxNodes == 50
MaxGroups == 5
MaxLines == 3
MaxBoxes == 3
MaxIter == 3
RoPadding == 2
RoCanvasW == 40
RoCanvasH == 32
MaxWaypoints == 3

(***************************************************************************)
(* Program constants                                                       *)
(***************************************************************************)
DefaultCanvasW == 1400
DefaultCanvasH == 900
GeneratorCanvasW == 1200
GeneratorCanvasH == 800
NoDesc == 0 - 1

CanvasSizes == {<<DefaultCanvasW, DefaultCanvasH>>, <<GeneratorCanvasW, GeneratorCanvasH>>}

(***************************************************************************)
(* Arithmetic helpers (Python's min, max, //, math.ceil on a quotient)     *)
(***************************************************************************)
Min(a, b) == IF a <= b THEN a ELSE b
Max(a, b) == IF a >= b THEN a ELSE b
\* math.ceil(a / b) for integers a and b # 0 of either sign
CeilDiv(a, b) == 0 - ((0 - a) \div b)
\* a % b as Python computes it: the result has the sign of b
PyMod(a, b) == a - b * (a \div b)

\* sum(s[lo..hi]) and max(s[lo..hi]), halving the range so that the evaluation stays shallow
RECURSIVE RangeSum(_, _, _)
RangeSum(s, lo, hi) ==
    IF lo > hi THEN 0
    ELSE IF lo = hi THEN s[lo]
    ELSE LET mid == (lo + hi) \div 2
         IN  RangeSum(s, lo, mid) + RangeSum(s, mid + 1, hi)
PrefixSum(s, k) == RangeSum(s, 1, k)
SeqSum(s) == RangeSum(s, 1, Len(s))

RECURSIVE RangeMax(_, _, _)
RangeMax(s, lo, hi) ==
    IF lo = hi THEN s[lo]
    ELSE LET mid == (lo + hi) \div 2
         IN  Max(RangeMax(s, lo, mid), RangeMax(s, mid + 1, hi))
SeqMax(s) == RangeMax(s, 1, Len(s))

(***************************************************************************)
(* Python floats.  The interpolation and the grid scaling compute with     *)
(* IEEE-754 binary64 values, and the rounding of those decides the integer *)
(* they are truncated to.  A natural number is a tuple of NatLimbs limbs   *)
(* in base 2^14, lowest limb first; a float is [neg, m, e] standing for    *)
(* (-1)^neg * m * 2^e with m of exactly 53 bits, or m = 0 for zero.  Every *)
(* operation rounds to nearest, ties to even, as the hardware does.  The   *)
(* limb operations are written without recursion: a carry is found by      *)
(* looking back for the limb that generates it.                            *)
(***************************************************************************)
LimbBits == 14
LimbBase == 16384
NatLimbs == 10
MantBits == 53

LimbIdx == 1..NatLimbs
\* the limbs f[1] .. f[NatLimbs] as a tuple
Limbs(f) == SubSeq(f, 1, NatLimbs)

NZero == Limbs([i \in LimbIdx |-> 0])
LimbAt(a, i) == IF i >= 1 /\ i <= NatLimbs THEN a[i] ELSE 0

\* the limbs of 0 <= n < 2^31
NFromInt(n) ==
    Limbs([i \in LimbIdx |-> IF i = 1 THEN (n % LimbBase)
                       ELSE IF i = 2 THEN (n \div LimbBase) % LimbBase
                       ELSE IF i = 3 THEN n \div (LimbBase * LimbBase)
                       ELSE 0])

\* the value of a < 2^31
NToInt(a) == a[1] + LimbBase * a[2] + LimbBase * LimbBase * a[3]

\* number of bits of 1 <= v < 2^28
BitLenWide(v) == CHOOSE k \in 1..28 : 2 ^ (k - 1) <= v /\ v < 2 ^ k

\* number of bits of 0 <= v < 2^15
BitLenSmall(v) == IF v = 0 THEN 0 ELSE CHOOSE k \in 1..15 : 2 ^ (k - 1) <= v /\ v < 2 ^ k

NBitLen(a) ==
    IF a = NZero THEN 0
    ELSE LET t == CHOOSE i \in LimbIdx : a[i] # 0 /\ \A k \in (i + 1)..NatLimbs : a[k] = 0
         IN  LimbBits * (t - 1) + BitLenSmall(a[t])

\* a * 2^n (the result fits)
NShl(a, n) ==
    LET q == n \div LimbBits
        r == n % LimbBits
    IN  Limbs([i \in LimbIdx |->
            ((LimbAt(a, i - q) * (2 ^ r)) % LimbBase) + (LimbAt(a, i - q - 1) \div (2 ^ (LimbBits - r)))])

\* a \div 2^n
NShr(a, n) ==
    LET q == n \div LimbBits
        r == n % LimbBits
    IN  Limbs([i \in LimbIdx |->
            (LimbAt(a, i + q) \div (2 ^ r)) + ((LimbAt(a, i + q + 1) % (2 ^ r)) * (2 ^ (LimbBits - r)))])

\* a % 2^n # 0
NLowNonzero(a, n) ==
    \/ \E i \in LimbIdx : i <= (n \div LimbBits) /\ a[i] # 0
    \/ (LimbAt(a, (n \div LimbBits) + 1) % (2 ^ (n % LimbBits))) # 0

\* bit n of a, bit 0 the lowest
NBit(a, n) == (LimbAt(a, (n \div LimbBits) + 1) \div (2 ^ (n % LimbBits))) % 2

\* -1, 0 or 1 as a < b, a = b or a > b
NCmp(a, b) ==
    IF a = b THEN 0
    ELSE LET t == CHOOSE i \in LimbIdx : a[i] # b[i] /\ \A k \in (i + 1)..NatLimbs : a[k] = b[k]
         IN  IF a[t] < b[t] THEN 0 - 1 ELSE 1

\* limbs from columns t[i] <= LimbBase + 4: a carry of 1 enters limb i when a
\* limb below reaches LimbBase and every limb in between sits at LimbBase - 1
Carried(t) ==
    Limbs([i \in LimbIdx |->
        LET c == IF \E j \in 1..(i - 1) :
                        t[j] >= LimbBase /\ \A k \in (j + 1)..(i - 1) : t[k] = LimbBase - 1
                 THEN 1 ELSE 0
        IN  (t[i] + c) % LimbBase])

\* limbs from columns c[i] < 2^30: the high parts move up twice, then the carries
Normalized(c) ==
    LET s == Limbs([i \in LimbIdx |-> (c[i] % LimbBase) + (LimbAt(c, i - 1) \div LimbBase)])
    IN  Carried(Limbs([i \in LimbIdx |-> (s[i] % LimbBase) + (LimbAt(s, i - 1) \div LimbBase)]))

NAdd(a, b) == Carried(Limbs([i \in LimbIdx |-> a[i] + b[i]]))

\* a - b for a >= b: a borrow enters limb i when a limb below falls short and
\* no limb in between has anything to spare
NSub(a, b) ==
    Limbs([i \in LimbIdx |->
        LET w == IF \E j \in 1..(i - 1) :
                        a[j] < b[j] /\ \A k \in (j + 1)..(i - 1) : a[k] <= b[k]
                 THEN 1 ELSE 0
        IN  (a[i] - b[i] - w + LimbBase) % LimbBase])

\* a * m for 0 <= m < 2^15
NMulSmall(a, m) == Normalized(Limbs([i \in LimbIdx |-> a[i] * m]))

\* a * b for a, b < 2^56 (four limbs each)
NMul(a, b) ==
    Normalized(Limbs([i \in LimbIdx |->
        a[1] * LimbAt(b, i) + a[2] * LimbAt(b, i - 1)
            + a[3] * LimbAt(b, i - 2) + a[4] * LimbAt(b, i - 3)]))

\* a * LimbBase + d
NPush(a, d) == Limbs([i \in LimbIdx |-> IF i = 1 THEN d ELSE a[i - 1]])

\* a digit near the quotient of cur by b, from the leading 15 bits of b and the
\* bits of cur at the same height (cur < b * LimbBase, so those fit 30 bits)
DigitGuess(cur, b) ==
    LET s == NBitLen(b) - 15
    IN  IF s <= 0 THEN NToInt(cur) \div NToInt(b)
        ELSE NToInt(NShr(cur, s)) \div NToInt(NShr(b, s))

\* the quotient digit of cur by b: the k near the guess g with
\* b * k <= cur < b * (k + 1)
DivDigit(cur, b, g) ==
    CHOOSE k \in Max(0, g - 3)..Min(LimbBase - 1, g + 1) :
        /\ NCmp(NMulSmall(b, k), cur) <= 0
        /\ NCmp(NAdd(NMulSmall(b, k), b), cur) > 0

\* st = [q, rem] once the digit of cur by b is taken
DivTake(st, cur, b, digit) ==
    [q |-> NPush(st.q, digit), rem |-> NSub(cur, NMulSmall(b, digit))]

\* one step of the long division by b: st = [q, rem] takes in the limb d
DivStep(st, d, b) ==
    IF st.rem = NZero /\ d = 0 THEN [q |-> NPush(st.q, 0), rem |-> NZero]
    ELSE DivTake(st, NPush(st.rem, d), b,
                 DivDigit(NPush(st.rem, d), b, DigitGuess(NPush(st.rem, d), b)))

\* quotient and remainder of a * 2^56 by b for 53-bit a and b: the three leading
\* limbs of the dividend are below b, the five limbs under them are divided in
DivMantissa(a, b) ==
    LET big == NShl(a, 4 * LimbBits)
        s5 == DivStep([q |-> NZero, rem |-> NShr(big, 5 * LimbBits)], big[5], b)
        s4 == DivStep(s5, big[4], b)
        s3 == DivStep(s4, big[3], b)
        s2 == DivStep(s3, big[2], b)
    IN  DivStep(s2, big[1], b)

\* floor(sqrt(v)) for 2^26 <= v < 2^28, found in two steps of seven bits
SqrtSmall(v) ==
    LET h == CHOOSE k \in 64..127 :
                (128 * k) * (128 * k) <= v /\ v < (128 * (k + 1)) * (128 * (k + 1))
    IN  CHOOSE r \in (128 * h)..(128 * h + 127) : r * r <= v /\ v < (r + 1) * (r + 1)

\* one more limb of a square root: st = [res, rem] with rem = v - res^2 becomes
\* [res * LimbBase + d, v * LimbBase^2 - (res * LimbBase + d)^2] for the largest
\* d that leaves the remainder non-negative
SqrtTaken(twice, k) == NMulSmall(NAdd(twice, NFromInt(k)), k)

\* the digit d near the guess g: the largest with (twice + d) * d <= big
SqrtDigit(big, twice, g) ==
    CHOOSE k \in Max(0, g - 4)..Min(LimbBase - 1, g + 1) :
        /\ NCmp(SqrtTaken(twice, k), big) <= 0
        /\ k < LimbBase - 1 => NCmp(SqrtTaken(twice, k + 1), big) > 0

SqrtTake(st, big, twice, d) ==
    [res |-> NPush(st.res, d), rem |-> NSub(big, SqrtTaken(twice, d))]

\* the step on big = rem * LimbBase^2 + the two limbs taken in, twice = 2 * res * LimbBase
SqrtFrom(st, big, twice) ==
    SqrtTake(st, big, twice, SqrtDigit(big, twice, DigitGuess(big, twice)))

SqrtStep(st) ==
    IF st.rem = NZero THEN [res |-> NPush(st.res, 0), rem |-> NZero]
    ELSE SqrtFrom(st, NPush(NPush(st.rem, 0), 0), NPush(NAdd(st.res, st.res), 0))


DZero == [neg |-> FALSE, m |-> NZero, e |-> 0]
DIsZero(x) == x.m = NZero

\* the float nearest to (-1)^neg * (m + f) * 2^e, where 0 < f < 1 if sticky and
\* f = 0 otherwise (m has more than MantBits bits whenever sticky is set)
DRound(neg, m, e, sticky) ==
    IF m = NZero THEN DZero
    ELSE LET sh == NBitLen(m) - MantBits
         IN  IF sh <= 0
             THEN [neg |-> neg, m |-> NShl(m, 0 - sh), e |-> e + sh]
             ELSE LET keep == NShr(m, sh)
                      st == sticky \/ NLowNonzero(m, sh - 1)
                      up == NBit(m, sh - 1) = 1 /\ (st \/ (keep[1] % 2) = 1)
                      k2 == IF up THEN NAdd(keep, NFromInt(1)) ELSE keep
                  IN  IF NBitLen(k2) > MantBits
                      THEN [neg |-> neg, m |-> NShr(k2, 1), e |-> e + sh + 1]
                      ELSE [neg |-> neg, m |-> k2, e |-> e + sh]

\* the float nearest to the root whose limbs and remainder are st, times 2^e
SqrtRounded(st, e) == DRound(FALSE, st.res, e, st.rem # NZero)

\* float(n)
DFromInt(n) == DRound(n < 0, NFromInt(IF n < 0 THEN 0 - n ELSE n), 0, FALSE)

DNeg(x) == IF DIsZero(x) THEN x ELSE [x EXCEPT !.neg = ~x.neg]

\* x + y; an operand more than 64 binary places below the other is rounded away
DAdd(x, y) ==
    IF DIsZero(x) THEN y
    ELSE IF DIsZero(y) THEN x
    ELSE IF x.e - y.e > 64 THEN x
    ELSE IF y.e - x.e > 64 THEN y
    ELSE LET e == Min(x.e, y.e)
             mx == NShl(x.m, x.e - e)
             my == NShl(y.m, y.e - e)
             c == NCmp(mx, my)
         IN  IF x.neg = y.neg THEN DRound(x.neg, NAdd(mx, my), e, FALSE)
             ELSE IF c = 0 THEN DZero
             ELSE IF c > 0 THEN DRound(x.neg, NSub(mx, my), e, FALSE)
             ELSE DRound(y.neg, NSub(my, mx), e, FALSE)

\* x - y
DSub(x, y) == DAdd(x, DNeg(y))

\* x * y
DMul(x, y) ==
    IF DIsZero(x) \/ DIsZero(y) THEN DZero
    ELSE DRound(x.neg # y.neg, NMul(x.m, y.m), x.e + y.e, FALSE)

\* the float nearest to (-1)^neg * (qr.q + a fraction if qr.rem # 0) * 2^e
DivRounded(neg, qr, e) == DRound(neg, qr.q, e, qr.rem # NZero)

\* x / y for y # 0
DDiv(x, y) ==
    IF DIsZero(x) \/ DIsZero(y) THEN DZero
    ELSE DivRounded(x.neg # y.neg, DivMantissa(x.m, y.m), x.e - y.e - 4 * LimbBits)

\* a / b for integers, the float a decimal literal stands for
DRatio(a, b) == DDiv(DFromInt(a), DFromInt(b))

\* math.sqrt(n) for an integer 0 <= n < 2^28: n is scaled by 4^j into 2^26..2^28,
\* the root of that is one limb, and four more limbs are taken
DSqrtInt(n) ==
    IF n = 0 THEN DZero
    ELSE LET j == (28 - BitLenWide(n)) \div 2
             v == n * (4 ^ j)
             r0 == SqrtSmall(v)
             s1 == SqrtStep([res |-> NFromInt(r0), rem |-> NFromInt(v - r0 * r0)])
             s2 == SqrtStep(s1)
             s3 == SqrtStep(s2)
         IN  SqrtRounded(SqrtStep(s3), 0 - (j + 4 * LimbBits))

\* -1, 0 or 1 as x < y, x = y or x > y
DCmp(x, y) ==
    IF DIsZero(x) /\ DIsZero(y) THEN 0
    ELSE IF DIsZero(x) THEN IF y.neg THEN 1 ELSE 0 - 1
    ELSE IF DIsZero(y) THEN IF x.neg THEN 0 - 1 ELSE 1
    ELSE IF x.neg # y.neg THEN IF x.neg THEN 0 - 1 ELSE 1
    ELSE LET mag == IF x.e # y.e THEN IF x.e < y.e THEN 0 - 1 ELSE 1
                    ELSE NCmp(x.m, y.m)
         IN  IF x.neg THEN 0 - mag ELSE mag

\* int(x) for |x| < 2^31: truncation towards zero
DTrunc(x) ==
    IF DIsZero(x) THEN 0
    ELSE LET mag == IF x.e >= 0 THEN NToInt(NShl(x.m, x.e)) ELSE NToInt(NShr(x.m, 0 - x.e))
         IN  IF x.neg THEN 0 - mag ELSE mag

(***************************************************************************)
(* InfographicAnimator._interpolate_along_path (animator.py).  A waypoint  *)
(* is <<x, y>>, a path a sequence of waypoints, t a float.  The result is  *)
(* a waypoint, or None for a path of fewer than two waypoints.  The        *)
(* function is split where it binds a local: each operator below receives  *)
(* the locals computed so far as arguments.                                *)
(***************************************************************************)
None == <<>>

\* seg_len of segment i, from waypoints[i] to waypoints[i + 1]
SegLen(waypoints, i) ==
    LET dx == waypoints[i + 1][1] - waypoints[i][1]
        dy == waypoints[i + 1][2] - waypoints[i][2]
    IN  DSqrtInt(dx * dx + dy * dy)

\* segment_lengths
SegmentLengths(waypoints) ==
    SubSeq([i \in 1..(Len(waypoints) - 1) |-> SegLen(waypoints, i)], 1, Len(waypoints) - 1)

\* the float sum of the first k segment lengths, added in order from 0.0
RECURSIVE LengthUpTo(_, _)
LengthUpTo(lens, k) == IF k = 0 THEN DZero ELSE DAdd(LengthUpTo(lens, k - 1), lens[k])

\* accumulated as the second loop reaches each segment, and total_length last
Accumulated(lens) == SubSeq([k \in 1..(Len(lens) + 1) |-> LengthUpTo(lens, k - 1)], 1, Len(lens) + 1)

\* int(start + local_t * (finish - start))
Lerp(start, finish, local_t) ==
    DTrunc(DAdd(DFromInt(start), DMul(local_t, DFromInt(finish - start))))

\* the point returned from segment i for local_t
PointOn(waypoints, i, local_t) ==
    <<Lerp(waypoints[i][1], waypoints[i + 1][1], local_t),
      Lerp(waypoints[i][2], waypoints[i + 1][2], local_t)>>

\* the body of the second loop once segment i is the one the position is on
OnSegment(waypoints, lens, i, target_dist, accumulated) ==
    IF DCmp(lens[i], DFromInt(1)) < 0 THEN waypoints[i]
    ELSE PointOn(waypoints, i, DDiv(DSub(target_dist, accumulated), lens[i]))

\* the test of the second loop at segment i
Reached(lens, acc, i, target_dist) == DCmp(DAdd(acc[i], lens[i]), target_dist) >= 0

\* the second loop: the first segment that passes the test returns, and the
\* last waypoint is returned when none does
Locate(waypoints, lens, acc, target_dist) ==
    IF \A i \in 1..Len(lens) : ~Reached(lens, acc, i, target_dist)
    THEN waypoints[Len(waypoints)]
    ELSE LET first == CHOOSE i \in 1..Len(lens) :
                        /\ Reached(lens, acc, i, target_dist)
                        /\ \A k \in 1..(i - 1) : ~Reached(lens, acc, k, target_dist)
         IN  OnSegment(waypoints, lens, first, target_dist, acc[first])

\* the function from the total_length test on
FromTotal(waypoints, lens, acc, t) ==
    IF DCmp(acc[Len(acc)], DFromInt(1)) < 0 THEN waypoints[1]
    ELSE Locate(waypoints, lens, acc, DMul(t, acc[Len(acc)]))

\* the function from the first loop on
FromLengths(waypoints, lens, t) == FromTotal(waypoints, lens, Accumulated(lens), t)

interpolate_along_path(waypoints, t) ==
    IF Len(waypoints) < 2 THEN None
    ELSE FromLengths(waypoints, SegmentLengths(waypoints), t)

Box(x, y, w, h) == <<x, y, w, h>>
BoxX(b) == b[1]
BoxY(b) == b[2]
BoxW(b) == b[3]
BoxH(b) == b[4]

(***************************************************************************)
(* Position maps: Python dicts {node_id: (x, y, w, h)}.  Writing the boxes *)
(* of a sequence of ids in order keeps, for a repeated id, the last box.   *)
(***************************************************************************)
EmptyMap == [id \in {} |-> Box(0, 0, 0, 0)]
SeqRange(s) == {s[i] : i \in 1..Len(s)}
LastIndex(s, v) == CHOOSE i \in 1..Len(s) : s[i] = v /\ \A j \in (i + 1)..Len(s) : s[j] # v
MapOf(ids, boxes) == [id \in SeqRange(ids) |-> boxes[LastIndex(ids, id)]]
\* earlier writes are overridden by later ones: `later` wins where both are defined
Override(earlier, later) ==
    [id \in (DOMAIN earlier) \cup (DOMAIN later) |->
        IF id \in DOMAIN later THEN later[id] ELSE earlier[id]]

(***************************************************************************)
(* Content measurement.  A description is modelled by the number of lines  *)
(* it wraps to at the card width (NoDesc when it is None or empty); the    *)
(* wrapping itself is done by the font library.                            *)
(***************************************************************************)
BaseHeight(has_icon, is_header_style, is_pipeline) ==
    IF is_pipeline THEN 20 + (IF has_icon THEN 50 ELSE 15) + 24 + 24
    ELSE IF is_header_style THEN 34 + (IF has_icon THEN 28 ELSE 0) + 22 + 16
    ELSE 18 + (IF has_icon THEN 34 ELSE 0) + 26 + 12

measure_node_content_height(desc, has_icon, min_h, max_h, is_header_style, is_pipeline) ==
    LET base_h == BaseHeight(has_icon, is_header_style, is_pipeline)
        line_h == IF is_header_style THEN 14 ELSE 16
        desc_h == desc * line_h + 6
        needed == base_h + desc_h
    IN  IF desc = NoDesc THEN Max(min_h, base_h)
        ELSE Max(min_h, Min(needed, max_h))

\* nodes: a sequence of records [id, desc, icon]; the result is the dict
\* {node id: height}, in which a later node replaces an earlier one of the same id.
NodeIdSet(nodes) == {nodes[i].id : i \in 1..Len(nodes)}
NodeById(nodes, id) == nodes[CHOOSE i \in 1..Len(nodes) :
                              nodes[i].id = id /\ \A j \in (i + 1)..Len(nodes) : nodes[j].id # id]
measure_content_heights(nodes, is_header_style, is_pipeline, min_h, max_h) ==
    [id \in NodeIdSet(nodes) |->
        measure_node_content_height(NodeById(nodes, id).desc, NodeById(nodes, id).icon,
                                    min_h, max_h, is_header_style, is_pipeline)]
\* no nodes were passed: `if nodes:` is false
NoHeights == [id \in {} |-> 0]
\* max(content_heights.values())
HeightsMax(heights) ==
    CHOOSE v \in {heights[id] : id \in DOMAIN heights} : \A id \in DOMAIN heights : v >= heights[id]
\* content_heights.get(nid, 100)
HeightOf(heights, nid) == IF nid \in DOMAIN heights THEN heights[nid] ELSE 100

(***************************************************************************)
(* layout_grid.  node_ids is a sequence of ids; heights is the dict of the *)
(* measured heights of the nodes passed as `nodes` (NoHeights when no      *)
(* nodes are passed, which selects the fixed-height fallback).             *)
(***************************************************************************)
GridCols(n, cols) == Min(cols, n)
GridRows(n, cols) == CeilDiv(n, GridCols(n, cols))

\* row_node_ids of row r, counted from 1: node_ids[(r - 1) * cols : r * cols]
GridRowIds(node_ids, r, c) ==
    SubSeq(node_ids, (r - 1) * c + 1, Min(r * c, Len(node_ids)))

GridRowMax(heights, node_ids, r, c) ==
    SeqMax([k \in 1..(Min(r * c, Len(node_ids)) - (r - 1) * c) |->
                HeightOf(heights, node_ids[(r - 1) * c + k])])

\* x of column col, counted from 0
GridX_GapOnly(col, margin, node_w, col_gap) == margin + col * col_gap
GridX(col, margin, node_w, col_gap) == margin + col * (node_w + col_gap)

\* row_heights after the proportional scale-down: scale is a float, and each
\* height is max(60, int(h * scale))
ScaleRows(row_heights, scale) ==
    [r \in 1..Len(row_heights) |-> Max(60, DTrunc(DMul(DFromInt(row_heights[r]), scale)))]

GridFixedMaxH(rows) ==
    IF rows = 1 THEN 300 ELSE IF rows = 2 THEN 200 ELSE IF rows = 3 THEN 140 ELSE 120

\* row_heights: each row as high as its highest node
GridRowHeights(heights, node_ids, rows, cols) ==
    SubSeq([r \in 1..rows |-> GridRowMax(heights, node_ids, r, cols)], 1, rows)

\* the rows are scaled down: total_rows_h > available_for_cards and
\* available_for_cards > 0
GridRowsScaled(row_heights, usable_h) ==
    /\ SeqSum(row_heights) > usable_h - (Len(row_heights) - 1) * 70
    /\ usable_h - (Len(row_heights) - 1) * 70 > 0

\* row_heights once the total was checked against the height left for the cards
GridFitRows(row_heights, usable_h) ==
    LET total_rows_h == SeqSum(row_heights)
        arrow_space == (Len(row_heights) - 1) * 70
        available_for_cards == usable_h - arrow_space
    IN  IF GridRowsScaled(row_heights, usable_h)
        THEN SubSeq(ScaleRows(row_heights,
                              DDiv(DFromInt(available_for_cards), DFromInt(total_rows_h))),
                    1, Len(row_heights))
        ELSE row_heights

\* the content-aware placement, from the row gaps on
GridPlaceRows(node_ids, cols, node_w, usable_h, margin, header_h, row_gap, col_gap, row_heights) ==
    LET rows == Len(row_heights)
        total_rows_h == SeqSum(row_heights)
        leftover_h == usable_h - total_rows_h
        actual_row_gap == IF rows > 1 THEN Max(row_gap, Min(leftover_h \div (rows + 1), 40))
                          ELSE row_gap
        total_grid_h == total_rows_h + (rows - 1) * actual_row_gap
        start_y == header_h + Min(Max(0, usable_h - total_grid_h) \div 8, 15)
    IN  \* for r in range(rows): for c in range(cols): nothing is placed when there
        \* is no row or no column; rows has no value when cols = 0 (n / cols raises)
        IF rows < 1 \/ cols < 1 THEN EmptyMap
        ELSE MapOf(node_ids, [i \in 1..Len(node_ids) |->
            LET r == ((i - 1) \div cols) + 1
                c == (i - 1) % cols
            IN  Box(GridX(c, margin, node_w, col_gap),
                    start_y + PrefixSum(row_heights, r - 1) + (r - 1) * actual_row_gap,
                    node_w, row_heights[r])])

layout_grid(node_ids, canvas_w, canvas_h, cols0, margin, header_h, row_gap, col_gap, footer_h, heights) ==
    LET n == Len(node_ids)
        cols == GridCols(n, cols0)
        rows == GridRows(n, cols0)
        usable_w == canvas_w - margin * 2
        usable_h == canvas_h - header_h - footer_h
        node_w == (usable_w - (cols - 1) * col_gap) \div cols
        \* fixed-height fallback
        raw_h == (usable_h - (rows - 1) * row_gap) \div rows
        node_h == Min(raw_h, GridFixedMaxH(rows))
        leftover_f == usable_h - rows * node_h
        gap_f == IF rows > 1 THEN Min(Max(row_gap, leftover_f \div (rows + 1)), 40)
                 ELSE row_gap
        grid_h_f == rows * node_h + (rows - 1) * gap_f
        start_y_f == header_h + Min(Max(0, usable_h - grid_h_f) \div 8, 15)
    IN  IF n = 0 THEN EmptyMap
        ELSE IF heights # NoHeights
        THEN GridPlaceRows(node_ids, cols, node_w, usable_h, margin, header_h, row_gap, col_gap,
                           GridFitRows(GridRowHeights(heights, node_ids, rows, cols), usable_h))
        ELSE MapOf(node_ids, [i \in 1..n |->
                LET row == (i - 1) \div cols
                    col == PyMod(i - 1, cols)
                IN  Box(GridX(col, margin, node_w, col_gap),
                        start_y_f + row * (node_h + gap_f),
                        node_w, node_h)])

(***************************************************************************)
(* layout_flow_horizontal, layout_flow_vertical                            *)
(***************************************************************************)
layout_flow_horizontal(node_ids, canvas_w, canvas_h, margin, header_h, heights) ==
    LET n == Len(node_ids)
        usable_w == canvas_w - margin * 2
        gap == Max(65, Min(85, (usable_w - n * 120) \div Max(n - 1, 1)))
        node_w == Min((usable_w - (n - 1) * gap) \div n, 200)
        max_available == canvas_h - header_h - margin * 2
        node_h0 == IF heights # NoHeights THEN HeightsMax(heights) ELSE Min(120, max_available)
        node_h == Min(node_h0, max_available)
        total_w == n * node_w + (n - 1) * gap
        start_x == margin + (usable_w - total_w) \div 2
        cy == header_h + (canvas_h - header_h - margin) \div 2
    IN  IF n = 0 THEN EmptyMap
        ELSE MapOf(node_ids, [i \in 1..n |->
                Box(start_x + (i - 1) * (node_w + gap), cy - node_h \div 2, node_w, node_h)])

layout_flow_vertical(node_ids, canvas_w, canvas_h, margin, header_h) ==
    LET n == Len(node_ids)
        usable_h == canvas_h - header_h - margin
        gap == 30
        node_h == Min((usable_h - (n - 1) * gap) \div n, 80)
        node_w == Min(220, canvas_w - margin * 2)
        cx == canvas_w \div 2
    IN  IF n = 0 THEN EmptyMap
        ELSE MapOf(node_ids, [i \in 1..n |->
                Box(cx - node_w \div 2, header_h + (i - 1) * (node_h + gap), node_w, node_h)])

(***************************************************************************)
(* layout_layered.  layers is a sequence of sequences of node ids; nodes   *)
(* is the sequence of node records of the scene.                           *)
(***************************************************************************)

LayerBoxes(node_ids, li, n_layers, nodes, canvas_w, canvas_h, margin, header_h) ==
    LET available_h == canvas_h - header_h - margin
        layer_h == available_h \div n_layers
        label_reserve == 45
        layer_y == header_h + (li - 1) * layer_h
        n_nodes == Len(node_ids)
        usable_w == canvas_w - margin * 2
        gap == IF n_nodes <= 3 THEN 45 ELSE IF n_nodes <= 5 THEN 30 ELSE 20
        max_node_w == IF n_nodes <= 3 THEN 220 ELSE IF n_nodes <= 5 THEN 200 ELSE 180
        node_w == Max(Min((usable_w - (n_nodes - 1) * gap) \div Max(n_nodes, 1), max_node_w), 100)
        total_nodes_w == n_nodes * node_w + (n_nodes - 1) * gap
        start_x == margin + (usable_w - total_nodes_w) \div 2
        layer_nodes == SelectSeq(node_ids, LAMBDA nid : nid \in NodeIdSet(nodes))
        max_node_h == Max(70, Min(220, layer_h - label_reserve - 16))
        measured == measure_content_heights(
                        [k \in 1..Len(layer_nodes) |-> NodeById(nodes, layer_nodes[k])],
                        TRUE, FALSE, 70, max_node_h)
        node_h0 == IF layer_nodes # <<>> THEN HeightsMax(measured) ELSE Min(max_node_h, 160)
        node_h == Max(70, Min(node_h0, max_node_h))
        top_reserve == Min(Max(label_reserve, 34), Max(34, layer_h \div 2))
        bottom_reserve == 12
        usable_layer_h == Max(node_h, layer_h - top_reserve - bottom_reserve)
        node_y == layer_y + top_reserve + Max(0, (usable_layer_h - node_h) \div 2)
    IN  MapOf(node_ids, [ni \in 1..n_nodes |->
            Box(start_x + (ni - 1) * (node_w + gap), node_y, node_w, node_h)])

RECURSIVE LayeredFrom(_, _, _, _, _, _, _)
LayeredFrom(layers, li, nodes, canvas_w, canvas_h, margin, header_h) ==
    IF li > Len(layers) THEN EmptyMap
    ELSE LET rest == LayeredFrom(layers, li + 1, nodes, canvas_w, canvas_h, margin, header_h)
             here == IF Len(layers[li]) = 0 THEN EmptyMap
                     ELSE LayerBoxes(layers[li], li, Len(layers), nodes,
                                     canvas_w, canvas_h, margin, header_h)
         IN  Override(here, rest)

layout_layered(layers, nodes, canvas_w, canvas_h, margin, header_h) ==
    IF Len(layers) = 0 THEN EmptyMap
    ELSE LayeredFrom(layers, 1, nodes, canvas_w, canvas_h, margin, header_h)

(***************************************************************************)
(* layout_columns: each group is a column                                  *)
(***************************************************************************)
ColumnBoxes(group, ci, n_cols, canvas_w, canvas_h, margin, header_h) ==
    LET gap == 30
        usable_w == canvas_w - margin * 2
        col_w == (usable_w - (n_cols - 1) * gap) \div n_cols
        col_x == margin + (ci - 1) * (col_w + gap)
        n_items == Len(group)
        item_gap == 15
        usable_h == canvas_h - header_h - margin - 60
        item_h == Min((usable_h - (n_items - 1) * item_gap) \div Max(n_items, 1), 100)
    IN  MapOf(group, [ri \in 1..n_items |->
            Box(col_x, header_h + 60 + (ri - 1) * (item_h + item_gap), col_w, item_h)])

RECURSIVE ColumnsFrom(_, _, _, _, _, _)
ColumnsFrom(groups, ci, canvas_w, canvas_h, margin, header_h) ==
    IF ci > Len(groups) THEN EmptyMap
    ELSE Override(ColumnBoxes(groups[ci], ci, Len(groups), canvas_w, canvas_h, margin, header_h),
                  ColumnsFrom(groups, ci + 1, canvas_w, canvas_h, margin, header_h))

layout_columns(groups, canvas_w, canvas_h, margin, header_h) ==
    IF Len(groups) = 0 THEN EmptyMap
    ELSE ColumnsFrom(groups, 1, canvas_w, canvas_h, margin, header_h)

(***************************************************************************)
(* layout_radial: the centre node in the middle of the canvas under the    *)
(* header, the outer nodes on a ring around it.  The cosine and the sine   *)
(* of the angle of every outer node are the floats the math library        *)
(* returns, tabulated for rings of up to 50 nodes.                         *)
(***************************************************************************)
\* math.cos(angle) for angle = (2 * math.pi * i) / n - math.pi / 2: row n, entry i + 1,
\* each as <<sign, high 25 bits, low 28 bits, k>> of the float m * 2^-k
RadialCos ==
    <<<<<<0, 18506339, 51665927, 106>>>>,
      <<<<0, 18506339, 51665927, 106>>, <<0, 18506339, 51665927, 106>>>>,
      <<<<0, 18506339, 51665927, 106>>, <<0, 29058990, 140004523, 53>>,
        <<1, 29058990, 140004521, 53>>>>,
      <<<<0, 18506339, 51665927, 106>>, <<0, 16777216, 0, 52>>, <<0, 18506339, 51665927, 106>>,
        <<1, 16777216, 0, 52>>>>,
      <<<<0, 18506339, 51665927, 106>>, <<0, 31912161, 54809855, 53>>,
        <<0, 19722800, 74799710, 53>>, <<1, 19722800, 74799709, 53>>,
        <<1, 31912161, 54809856, 53>>>>,
      <<<<0, 18506339, 51665927, 106>>, <<0, 29058990, 140004522, 53>>,
        <<0, 29058990, 140004523, 53>>, <<0, 18506339, 51665927, 106>>,
        <<1, 29058990, 140004521, 53>>, <<1, 29058990, 140004522, 53>>>>,
      <<<<0, 18506339, 51665927, 106>>, <<0, 26233911, 84270667, 53>>,
        <<0, 32713152, 89713001, 53>>, <<0, 29117444, 225553346, 54>>,
        <<1, 29117444, 225553344, 54>>, <<1, 32713152, 89713001, 53>>,
        <<1, 26233911, 84270668, 53>>>>,
      <<<<0, 18506339, 51665927, 106>>, <<0, 23726566, 109001677, 53>>, <<0, 16777216, 0, 52>>,
        <<0, 23726566, 109001677, 53>>, <<0, 18506339, 51665927, 106>>,
        <<1, 23726566, 109001676, 53>>, <<1, 16777216, 0, 52>>, <<1, 23726566, 109001678, 53>>>>,
      <<<<0, 18506339, 51665927, 106>>, <<0, 21568373, 37492253, 53>>,
        <<0, 33044664, 209787927, 53>>, <<0, 29058990, 140004523, 53>>,
        <<0, 22952583, 76155895, 54>>, <<1, 22952583, 76155893, 54>>,
        <<1, 29058990, 140004521, 53>>, <<1, 33044664, 209787928, 53>>,
        <<1, 21568373, 37492254, 53>>>>,
      <<<<0, 18506339, 51665927, 106>>, <<0, 19722800, 74799710, 53>>,
        <<0, 31912161, 54809855, 53>>, <<0, 31912161, 54809855, 53>>,
        <<0, 19722800, 74799710, 53>>, <<0, 18506339, 51665927, 106>>,
        <<1, 19722800, 74799709, 53>>, <<1, 31912161, 54809855, 53>>,
        <<1, 31912161, 54809856, 53>>, <<1, 19722800, 74799711, 53>>>>,
      <<<<0, 18506339, 51665927, 106>>, <<0, 18140895, 146495500, 53>>,
        <<0, 30522184, 250489876, 53>>, <<0, 33212896, 70796016, 53>>,
        <<0, 25358747, 188360865, 53>>, <<0, 18906751, 225873342, 54>>,
        <<1, 18906751, 225873339, 54>>, <<1, 25358747, 188360864, 53>>,
        <<1, 33212896, 70796015, 53>>, <<1, 30522184, 250489877, 53>>,
        <<1, 18140895, 146495498, 53>>>>,
      <<<<0, 18506339, 51665927, 106>>, <<0, 33554431, 268435454, 54>>,
        <<0, 29058990, 140004522, 53>>, <<0, 16777216, 0, 52>>, <<0, 29058990, 140004523, 53>>,
        <<0, 33554431, 268435454, 54>>, <<0, 18506339, 51665927, 106>>,
        <<1, 33554431, 268435452, 54>>, <<1, 29058990, 140004521, 53>>, <<1, 16777216, 0, 52>>,
        <<1, 29058990, 140004522, 53>>, <<1, 16777216, 4, 53>>>>,
      <<<<0, 18506339, 51665927, 106>>, <<0, 31187044, 40354941, 54>>,
        <<0, 27614756, 44352466, 53>>, <<0, 33309782, 110520169, 53>>,
        <<0, 31373938, 250741063, 53>>, <<0, 22250704, 38547331, 53>>,
        <<0, 32120404, 197430714, 55>>, <<1, 32120404, 197430709, 55>>,
        <<1, 22250704, 38547330, 53>>, <<1, 31373938, 250741062, 53>>,
        <<1, 33309782, 110520169, 53>>, <<1, 27614756, 44352472, 53>>,
        <<1, 31187044, 40354936, 54>>>>,
      <<<<0, 18506339, 51665927, 106>>, <<0, 29117444, 225553346, 54>>,
        <<0, 26233911, 84270667, 53>>, <<0, 32713152, 89713001, 53>>,
        <<0, 32713152, 89713001, 53>>, <<0, 26233911, 84270667, 53>>,
        <<0, 29117444, 225553346, 54>>, <<0, 18506339, 51665927, 106>>,
        <<1, 29117444, 225553344, 54>>, <<1, 26233911, 84270667, 53>>,
        <<1, 32713152, 89713001, 53>>, <<1, 32713152, 89713003, 53>>,
        <<1, 26233911, 84270668, 53>>, <<1, 29117444, 225553333, 54>>>>,
      <<<<0, 18506339, 51665927, 106>>, <<0, 27295634, 17177297, 54>>,
        <<0, 24935802, 137608898, 53>>, <<0, 31912161, 54809855, 53>>,
        <<0, 33370617, 83388358, 53>>, <<0, 29058990, 140004523, 53>>,
        <<0, 19722800, 74799710, 53>>, <<0, 27905434, 205674738, 55>>,
        <<1, 27905434, 205674734, 55>>, <<1, 19722800, 74799709, 53>>,
        <<1, 29058990, 140004521, 53>>, <<1, 33370617, 83388358, 53>>,
        <<1, 31912161, 54809856, 53>>, <<1, 24935802, 137608895, 53>>,
        <<1, 27295634, 17177295, 54>>>>,
      <<<<0, 18506339, 51665927, 106>>, <<0, 25681450, 112109924, 54>>,
        <<0, 23726566, 109001677, 53>>, <<0, 31000252, 254971206, 53>>, <<0, 16777216, 0, 52>>,
        <<0, 31000252, 254971206, 53>>, <<0, 23726566, 109001677, 53>>,
        <<0, 25681450, 112109924, 54>>, <<0, 18506339, 51665927, 106>>,
        <<1, 25681450, 112109922, 54>>, <<1, 23726566, 109001676, 53>>,
        <<1, 31000252, 254971204, 53>>, <<1, 16777216, 0, 52>>, <<1, 31000252, 254971205, 53>>,
        <<1, 23726566, 109001678, 53>>, <<1, 25681450, 112109933, 54>>>>,
      <<<<0, 18506339, 51665927, 106>>, <<0, 24242517, 227441886, 54>>,
        <<0, 22605474, 178089379, 53>>, <<0, 30036695, 211706891, 53>>,
        <<0, 33411294, 190204707, 53>>, <<0, 32273513, 37500063, 53>>,
        <<0, 26777014, 211420663, 53>>, <<0, 17664132, 56876418, 53>>,
        <<0, 24662442, 215402163, 55>>, <<1, 24662442, 215402158, 55>>,
        <<1, 17664132, 56876417, 53>>, <<1, 26777014, 211420657, 53>>,
        <<1, 32273513, 37500063, 53>>, <<1, 33411294, 190204706, 53>>,
        <<1, 30036695, 211706893, 53>>, <<1, 22605474, 178089384, 53>>,
        <<1, 24242517, 227441885, 54>>>>,
      <<<<0, 18506339, 51665927, 106>>, <<0, 22952583, 76155895, 54>>,
        <<0, 21568373, 37492253, 53>>, <<0, 29058990, 140004522, 53>>,
        <<0, 33044664, 209787927, 53>>, <<0, 33044664, 209787927, 53>>,
        <<0, 29058990, 140004523, 53>>, <<0, 21568373, 37492254, 53>>,
        <<0, 22952583, 76155895, 54>>, <<0, 18506339, 51665927, 106>>,
        <<1, 22952583, 76155893, 54>>, <<1, 21568373, 37492250, 53>>,
        <<1, 29058990, 140004521, 53>>, <<1, 33044664, 209787927, 53>>,
        <<1, 33044664, 209787928, 53>>, <<1, 29058990, 140004526, 53>>,
        <<1, 21568373, 37492254, 53>>, <<1, 22952583, 76155890, 54>>>>,
      <<<<0, 18506339, 51665927, 106>>, <<0, 21790212, 139513771, 54>>,
        <<0, 20609558, 188302371, 53>>, <<0, 28090645, 179191269, 53>>,
        <<0, 32527675, 81669656, 53>>, <<0, 33439826, 161825450, 53>>,
        <<0, 30728253, 219220744, 53>>, <<0, 24686797, 250035728, 53>>,
        <<0, 31940288, 233667567, 54>>, <<0, 22091511, 254630088, 55>>,
        <<1, 22091511, 254630083, 55>>, <<1, 31940288, 233667558, 54>>,
        <<1, 24686797, 250035727, 53>>, <<1, 30728253, 219220746, 53>>,
        <<1, 33439826, 161825450, 53>>, <<1, 32527675, 81669657, 53>>,
        <<1, 28090645, 179191270, 53>>, <<1, 20609558, 188302366, 53>>,
        <<1, 21790212, 139513773, 54>>>>,
      <<<<0, 18506339, 51665927, 106>>, <<0, 20737779, 120580432, 54>>,
        <<0, 19722800, 74799710, 53>>, <<0, 27146105, 194507944, 53>>,
        <<0, 31912161, 54809855, 53>>, <<0, 16777216, 0, 52>>, <<0, 31912161, 54809855, 53>>,
        <<0, 27146105, 194507944, 53>>, <<0, 19722800, 74799710, 53>>,
        <<0, 20737779, 120580432, 54>>, <<0, 18506339, 51665927, 106>>,
        <<1, 20737779, 120580423, 54>>, <<1, 19722800, 74799709, 53>>,
        <<1, 27146105, 194507943, 53>>, <<1, 31912161, 54809855, 53>>, <<1, 16777216, 0, 52>>,
        <<1, 31912161, 54809856, 53>>, <<1, 27146105, 194507945, 53>>,
        <<1, 19722800, 74799711, 53>>, <<1, 20737779, 120580434, 54>>>>,
      <<<<0, 18506339, 51665927, 106>>, <<0, 19780684, 245037993, 54>>,
        <<0, 18901884, 156372205, 53>>, <<0, 26233911, 84270667, 53>>,
        <<0, 31234939, 241448846, 53>>, <<0, 33460607, 713421, 53>>,
        <<0, 32713152, 89713001, 53>>, <<0, 29058990, 140004523, 53>>,
        <<0, 22822809, 235629461, 53>>, <<0, 29117444, 225553346, 54>>,
        <<0, 20004114, 91841811, 55>>, <<1, 20004114, 91841791, 55>>,
        <<1, 29117444, 225553344, 54>>, <<1, 22822809, 235629463, 53>>,
        <<1, 29058990, 140004521, 53>>, <<1, 32713152, 89713001, 53>>,
        <<1, 33460607, 713421, 53>>, <<1, 31234939, 241448845, 53>>,
        <<1, 26233911, 84270668, 53>>, <<1, 18901884, 156372210, 53>>,
        <<1, 19780684, 245037999, 54>>>>,
      <<<<0, 18506339, 51665927, 106>>, <<0, 18906751, 225873345, 54>>,
        <<0, 18140895, 146495500, 53>>, <<0, 25358747, 188360865, 53>>,
        <<0, 30522184, 250489876, 53>>, <<0, 33212896, 70796016, 53>>,
        <<0, 33212896, 70796016, 53>>, <<0, 30522184, 250489876, 53>>,
        <<0, 25358747, 188360865, 53>>, <<0, 18140895, 146495500, 53>>,
        <<0, 18906751, 225873342, 54>>, <<0, 19090508, 107121537, 103>>,
        <<1, 18906751, 225873339, 54>>, <<1, 18140895, 146495500, 53>>,
        <<1, 25358747, 188360864, 53>>, <<1, 30522184, 250489873, 53>>,
        <<1, 33212896, 70796015, 53>>, <<1, 33212896, 70796016, 53>>,
        <<1, 30522184, 250489877, 53>>, <<1, 25358747, 188360868, 53>>,
        <<1, 18140895, 146495498, 53>>, <<1, 18906751, 225873344, 54>>>>,
      <<<<0, 18506339, 51665927, 106>>, <<0, 18105754, 220980325, 54>>,
        <<0, 17434344, 85833674, 53>>, <<0, 24522785, 178918874, 53>>,
        <<0, 29792484, 49576713, 53>>, <<0, 32852610, 118760823, 53>>,
        <<0, 33476208, 234700539, 53>>, <<0, 31617030, 10064520, 53>>,
        <<0, 27412960, 193559722, 53>>, <<0, 21175797, 137951217, 53>>,
        <<0, 26736244, 149234864, 54>>, <<0, 18275978, 72765210, 55>>,
        <<1, 18275978, 72765189, 55>>, <<1, 26736244, 149234869, 54>>,
        <<1, 21175797, 137951216, 53>>, <<1, 27412960, 193559721, 53>>,
        <<1, 31617030, 10064519, 53>>, <<1, 33476208, 234700540, 53>>,
        <<1, 32852610, 118760823, 53>>, <<1, 29792484, 49576715, 53>>,
        <<1, 24522785, 178918872, 53>>, <<1, 17434344, 85833674, 53>>,
        <<1, 18105754, 220980342, 54>>>>,
      <<<<0, 18506339, 51665927, 106>>, <<0, 17369052, 26412688, 54>>,
        <<0, 33554431, 268435454, 54>>, <<0, 23726566, 109001677, 53>>,
        <<0, 29058990, 140004522, 53>>, <<0, 32411092, 122208021, 53>>, <<0, 16777216, 0, 52>>,
        <<0, 32411092, 122208021, 53>>, <<0, 29058990, 140004523, 53>>,
        <<0, 23726566, 109001677, 53>>, <<0, 33554431, 268435454, 54>>,
        <<0, 17369052, 26412692, 54>>, <<0, 18506339, 51665927, 106>>,
        <<1, 17369052, 26412690, 54>>, <<1, 33554431, 268435452, 54>>,
        <<1, 23726566, 109001673, 53>>, <<1, 29058990, 140004521, 53>>,
        <<1, 32411092, 122208021, 53>>, <<1, 16777216, 0, 52>>, <<1, 32411092, 122208022, 53>>,
        <<1, 29058990, 140004522, 53>>, <<1, 23726566, 109001678, 53>>, <<1, 16777216, 4, 53>>,
        <<1, 17369052, 26412702, 54>>>>,
      <<<<0, 18506339, 51665927, 106>>, <<0, 33378591, 169609108, 55>>,
        <<0, 32329941, 213887314, 54>>, <<0, 22969589, 85008403, 53>>,
        <<0, 28330943, 258223751, 53>>, <<0, 31912161, 54809855, 53>>,
        <<0, 33488219, 266617854, 53>>, <<0, 32960090, 203753983, 53>>,
        <<0, 30360957, 215750027, 53>>, <<0, 25854134, 56323049, 53>>,
        <<0, 19722800, 74799710, 53>>, <<0, 24704420, 145271067, 54>>,
        <<0, 16821941, 228678632, 55>>, <<1, 16821941, 228678628, 55>>,
        <<1, 24704420, 145271065, 54>>, <<1, 19722800, 74799706, 53>>,
        <<1, 25854134, 56323051, 53>>, <<1, 30360957, 215750030, 53>>,
        <<1, 32960090, 203753983, 53>>, <<1, 33488219, 266617854, 53>>,
        <<1, 31912161, 54809856, 53>>, <<1, 28330943, 258223749, 53>>,
        <<1, 22969589, 85008406, 53>>, <<1, 32329941, 213887327, 54>>,
        <<1, 33378591, 169609128, 55>>>>,
      <<<<0, 18506339, 51665927, 106>>, <<0, 32120404, 197430721, 55>>,
        <<0, 31187044, 40354941, 54>>, <<0, 22250704, 38547333, 53>>,
        <<0, 27614756, 44352466, 53>>, <<0, 31373938, 250741063, 53>>,
        <<0, 33309782, 110520169, 53>>, <<0, 33309782, 110520169, 53>>,
        <<0, 31373938, 250741063, 53>>, <<0, 27614756, 44352467, 53>>,
        <<0, 22250704, 38547331, 53>>, <<0, 31187044, 40354948, 54>>,
        <<0, 32120404, 197430714, 55>>, <<1, 28927847, 54192382, 104>>,
        <<1, 32120404, 197430709, 55>>, <<1, 31187044, 40354932, 54>>,
        <<1, 22250704, 38547330, 53>>, <<1, 27614756, 44352466, 53>>,
        <<1, 31373938, 250741062, 53>>, <<1, 33309782, 110520169, 53>>,
        <<1, 33309782, 110520169, 53>>, <<1, 31373938, 250741063, 53>>,
        <<1, 27614756, 44352472, 53>>, <<1, 22250704, 38547335, 53>>,
        <<1, 31187044, 40354936, 54>>, <<1, 32120404, 197430718, 55>>>>,
      <<<<0, 18506339, 51665927, 106>>, <<0, 30952738, 56852483, 55>>,
        <<0, 30118403, 39563176, 54>>, <<0, 21568373, 37492253, 53>>,
        <<0, 26914788, 34070368, 53>>, <<0, 30810219, 246858315, 53>>,
        <<0, 33044664, 209787927, 53>>, <<0, 33497663, 56843491, 53>>,
        <<0, 32144793, 254397150, 53>>, <<0, 29058990, 140004523, 53>>,
        <<0, 24406609, 105966303, 53>>, <<0, 18438461, 171279633, 53>>,
        <<0, 22952583, 76155895, 54>>, <<0, 31163454, 91690819, 56>>,
        <<1, 31163454, 91690842, 56>>, <<1, 22952583, 76155885, 54>>,
        <<1, 18438461, 171279632, 53>>, <<1, 24406609, 105966302, 53>>,
        <<1, 29058990, 140004521, 53>>, <<1, 32144793, 254397149, 53>>,
        <<1, 33497663, 56843491, 53>>, <<1, 33044664, 209787926, 53>>,
        <<1, 30810219, 246858316, 53>>, <<1, 26914788, 34070369, 53>>,
        <<1, 21568373, 37492254, 53>>, <<1, 30118403, 39563178, 54>>,
        <<1, 30952738, 56852457, 55>>>>,
      <<<<0, 18506339, 51665927, 106>>, <<0, 29866254, 50480516, 55>>,
        <<0, 29117444, 225553346, 54>>, <<0, 20920846, 42724818, 53>>,
        <<0, 26233911, 84270667, 53>>, <<0, 30231498, 164322417, 53>>,
        <<0, 32713152, 89713001, 53>>, <<0, 16777216, 0, 52>>, <<0, 32713152, 89713001, 53>>,
        <<0, 30231498, 164322417, 53>>, <<0, 26233911, 84270667, 53>>,
        <<0, 20920846, 42724821, 53>>, <<0, 29117444, 225553346, 54>>,
        <<0, 29866254, 50480501, 55>>, <<0, 18506339, 51665927, 106>>,
        <<1, 29866254, 50480496, 55>>, <<1, 29117444, 225553344, 54>>,
        <<1, 20920846, 42724820, 53>>, <<1, 26233911, 84270667, 53>>,
        <<1, 30231498, 164322416, 53>>, <<1, 32713152, 89713001, 53>>, <<1, 16777216, 0, 52>>,
        <<1, 32713152, 89713003, 53>>, <<1, 30231498, 164322417, 53>>,
        <<1, 26233911, 84270668, 53>>, <<1, 20920846, 42724819, 53>>,
        <<1, 29117444, 225553333, 54>>, <<1, 29866254, 50480521, 55>>>>,
      <<<<0, 18506339, 51665927, 106>>, <<0, 28852844, 19403457, 55>>,
        <<0, 28178280, 164199280, 54>>, <<0, 20306277, 13924435, 53>>,
        <<0, 25573914, 228642726, 53>>, <<0, 29645744, 219189644, 53>>,
        <<0, 32331372, 188599202, 53>>, <<0, 33505221, 143558045, 53>>,
        <<0, 33112403, 119833911, 53>>, <<0, 31171286, 46889119, 53>>,
        <<0, 27772634, 55244959, 53>>, <<0, 23075364, 195564356, 53>>,
        <<0, 17299116, 226286817, 53>>, <<0, 21427962, 257936238, 54>>,
        <<0, 29022978, 3463686, 56>>, <<1, 29022978, 3463645, 56>>,
        <<1, 21427962, 257936244, 54>>, <<1, 17299116, 226286819, 53>>,
        <<1, 23075364, 195564352, 53>>, <<1, 27772634, 55244958, 53>>,
        <<1, 31171286, 46889119, 53>>, <<1, 33112403, 119833911, 53>>,
        <<1, 33505221, 143558046, 53>>, <<1, 32331372, 188599203, 53>>,
        <<1, 29645744, 219189643, 53>>, <<1, 25573914, 228642724, 53>>,
        <<1, 20306277, 13924431, 53>>, <<1, 28178280, 164199285, 54>>,
        <<1, 28852844, 19403461, 55>>>>,
      <<<<0, 18506339, 51665927, 106>>, <<0, 27905434, 205674746, 55>>,
        <<0, 27295634, 17177297, 54>>, <<0, 19722800, 74799710, 53>>,
        <<0, 24935802, 137608898, 53>>, <<0, 29058990, 140004522, 53>>,
        <<0, 31912161, 54809855, 53>>, <<0, 33370617, 83388358, 53>>,
        <<0, 33370617, 83388358, 53>>, <<0, 31912161, 54809855, 53>>,
        <<0, 29058990, 140004523, 53>>, <<0, 24935802, 137608900, 53>>,
        <<0, 19722800, 74799710, 53>>, <<0, 27295634, 17177293, 54>>,
        <<0, 27905434, 205674738, 55>>, <<0, 19090508, 107121537, 103>>,
        <<1, 27905434, 205674734, 55>>, <<1, 27295634, 17177298, 54>>,
        <<1, 19722800, 74799709, 53>>, <<1, 24935802, 137608896, 53>>,
        <<1, 29058990, 140004521, 53>>, <<1, 31912161, 54809855, 53>>,
        <<1, 33370617, 83388358, 53>>, <<1, 33370617, 83388359, 53>>,
        <<1, 31912161, 54809856, 53>>, <<1, 29058990, 140004522, 53>>,
        <<1, 24935802, 137608895, 53>>, <<1, 19722800, 74799711, 53>>,
        <<1, 27295634, 17177295, 54>>, <<1, 27905434, 205674727, 55>>>>,
      <<<<0, 18506339, 51665927, 106>>, <<0, 27017830, 4311696, 55>>,
        <<0, 26464773, 120367371, 54>>, <<0, 19168580, 128086550, 53>>,
        <<0, 24320010, 78697216, 53>>, <<0, 28475776, 8133088, 53>>,
        <<0, 31465740, 40529520, 53>>, <<0, 33167493, 46391434, 53>>,
        <<0, 33511365, 34131193, 53>>, <<0, 32483277, 229714170, 53>>,
        <<0, 30125321, 99943287, 53>>, <<0, 26534030, 185844819, 53>>,
        <<0, 21856433, 182045941, 53>>, <<0, 32568063, 108026859, 54>>,
        <<0, 20089919, 28517068, 54>>, <<0, 27157164, 173262018, 56>>,
        <<1, 27157164, 173261977, 56>>, <<1, 20089919, 28517073, 54>>,
        <<1, 32568063, 108026857, 54>>, <<1, 21856433, 182045940, 53>>,
        <<1, 26534030, 185844819, 53>>, <<1, 30125321, 99943288, 53>>,
        <<1, 32483277, 229714168, 53>>, <<1, 33511365, 34131193, 53>>,
        <<1, 33167493, 46391434, 53>>, <<1, 31465740, 40529519, 53>>,
        <<1, 28475776, 8133087, 53>>, <<1, 24320010, 78697216, 53>>,
        <<1, 19168580, 128086550, 53>>, <<1, 26464773, 120367373, 54>>,
        <<1, 27017830, 4311731, 55>>>>,
      <<<<0, 18506339, 51665927, 106>>, <<0, 26184579, 208250381, 55>>,
        <<0, 25681450, 112109924, 54>>, <<0, 18641843, 162425033, 53>>,
        <<0, 23726566, 109001677, 53>>, <<0, 27899490, 151953827, 53>>,
        <<0, 31000252, 254971206, 53>>, <<0, 32909692, 267869360, 53>>, <<0, 16777216, 0, 52>>,
        <<0, 32909692, 267869360, 53>>, <<0, 31000252, 254971206, 53>>,
        <<0, 27899490, 151953828, 53>>, <<0, 23726566, 109001677, 53>>,
        <<0, 18641843, 162425031, 53>>, <<0, 25681450, 112109924, 54>>,
        <<0, 26184579, 208250388, 55>>, <<0, 18506339, 51665927, 106>>,
        <<1, 26184579, 208250384, 55>>, <<1, 25681450, 112109922, 54>>,
        <<1, 18641843, 162425030, 53>>, <<1, 23726566, 109001676, 53>>,
        <<1, 27899490, 151953828, 53>>, <<1, 31000252, 254971204, 53>>,
        <<1, 32909692, 267869360, 53>>, <<1, 16777216, 0, 52>>, <<1, 32909692, 267869360, 53>>,
        <<1, 31000252, 254971205, 53>>, <<1, 27899490, 151953829, 53>>,
        <<1, 23726566, 109001678, 53>>, <<1, 18641843, 162425032, 53>>,
        <<1, 25681450, 112109933, 54>>, <<1, 26184579, 208250393, 55>>>>,
      <<<<0, 18506339, 51665927, 106>>, <<0, 25400872, 10529937, 55>>,
        <<0, 24941845, 51221498, 54>>, <<0, 18140895, 146495500, 53>>,
        <<0, 23155209, 71243776, 53>>, <<0, 27332633, 105202070, 53>>,
        <<0, 30522184, 250489876, 53>>, <<0, 32608585, 49962719, 53>>,
        <<0, 33516426, 56274051, 53>>, <<0, 33212896, 70796016, 53>>,
        <<0, 31708965, 190993349, 53>>, <<0, 29058990, 140004523, 53>>,
        <<0, 25358747, 188360865, 53>>, <<0, 20741973, 179402993, 53>>,
        <<0, 30751061, 87992561, 54>>, <<0, 18906751, 225873349, 54>>,
        <<0, 25516412, 88560631, 56>>, <<1, 25516412, 88560623, 56>>,
        <<1, 18906751, 225873339, 54>>, <<1, 30751061, 87992552, 54>>,
        <<1, 20741973, 179402995, 53>>, <<1, 25358747, 188360867, 53>>,
        <<1, 29058990, 140004521, 53>>, <<1, 31708965, 190993349, 53>>,
        <<1, 33212896, 70796015, 53>>, <<1, 33516426, 56274051, 53>>,
        <<1, 32608585, 49962719, 53>>, <<1, 30522184, 250489877, 53>>,
        <<1, 27332633, 105202071, 53>>, <<1, 23155209, 71243776, 53>>,
        <<1, 18140895, 146495505, 53>>, <<1, 24941845, 51221507, 54>>,
        <<1, 25400872, 10529950, 55>>>>,
      <<<<0, 18506339, 51665927, 106>>, <<0, 24662442, 215402163, 55>>,
        <<0, 24242517, 227441886, 54>>, <<0, 17664132, 56876416, 53>>,
        <<0, 22605474, 178089379, 53>>, <<0, 26777014, 211420663, 53>>,
        <<0, 30036695, 211706891, 53>>, <<0, 32273513, 37500063, 53>>,
        <<0, 33411294, 190204707, 53>>, <<0, 33411294, 190204707, 53>>,
        <<0, 32273513, 37500063, 53>>, <<0, 30036695, 211706893, 53>>,
        <<0, 26777014, 211420663, 53>>, <<0, 22605474, 178089377, 53>>,
        <<0, 17664132, 56876418, 53>>, <<0, 24242517, 227441890, 54>>,
        <<0, 24662442, 215402163, 55>>, <<0, 18506339, 51665927, 106>>,
        <<1, 24662442, 215402158, 55>>, <<1, 24242517, 227441881, 54>>,
        <<1, 17664132, 56876417, 53>>, <<1, 22605474, 178089379, 53>>,
        <<1, 26777014, 211420657, 53>>, <<1, 30036695, 211706889, 53>>,
        <<1, 32273513, 37500063, 53>>, <<1, 33411294, 190204707, 53>>,
        <<1, 33411294, 190204706, 53>>, <<1, 32273513, 37500063, 53>>,
        <<1, 30036695, 211706893, 53>>, <<1, 26777014, 211420663, 53>>,
        <<1, 22605474, 178089384, 53>>, <<1, 17664132, 56876419, 53>>,
        <<1, 24242517, 227441885, 54>>, <<1, 24662442, 215402151, 55>>>>,
      <<<<0, 18506339, 51665927, 106>>, <<0, 23965500, 198268585, 55>>,
        <<0, 23580365, 75778995, 54>>, <<0, 17210043, 248723063, 53>>,
        <<0, 22076760, 64346857, 53>>, <<0, 26233911, 84270667, 53>>,
        <<0, 29547882, 239764066, 53>>, <<0, 31912161, 54809855, 53>>,
        <<0, 33250756, 106477170, 53>>, <<0, 33520644, 246888684, 53>>,
        <<0, 32713152, 89713001, 53>>, <<0, 30854232, 31189279, 53>>,
        <<0, 28003631, 131804546, 53>>, <<0, 24252971, 29056922, 53>>,
        <<0, 19722800, 74799710, 53>>, <<0, 29117444, 225553346, 54>>,
        <<0, 17853430, 131029522, 54>>, <<0, 24062368, 204284226, 56>>,
        <<1, 24062368, 204284218, 56>>, <<1, 17853430, 131029520, 54>>,
        <<1, 29117444, 225553344, 54>>, <<1, 19722800, 74799709, 53>>,
        <<1, 24252971, 29056918, 53>>, <<1, 28003631, 131804546, 53>>,
        <<1, 30854232, 31189278, 53>>, <<1, 32713152, 89713001, 53>>,
        <<1, 33520644, 246888683, 53>>, <<1, 33250756, 106477170, 53>>,
        <<1, 31912161, 54809856, 53>>, <<1, 29547882, 239764067, 53>>,
        <<1, 26233911, 84270668, 53>>, <<1, 22076760, 64346858, 53>>,
        <<1, 17210043, 248723064, 53>>, <<1, 23580365, 75778997, 54>>,
        <<1, 23965500, 198268589, 55>>>>,
      <<<<0, 18506339, 51665927, 106>>, <<0, 23306663, 235631500, 55>>,
        <<0, 22952583, 76155895, 54>>, <<0, 33554431, 268435454, 54>>,
        <<0, 21568373, 37492253, 53>>, <<0, 25704186, 47140921, 53>>,
        <<0, 29058990, 140004522, 53>>, <<0, 31530852, 38939931, 53>>,
        <<0, 33044664, 209787927, 53>>, <<0, 16777216, 0, 52>>, <<0, 33044664, 209787927, 53>>,
        <<0, 31530852, 38939932, 53>>, <<0, 29058990, 140004523, 53>>,
        <<0, 25704186, 47140921, 53>>, <<0, 21568373, 37492254, 53>>, <<0, 16777216, 3, 53>>,
        <<0, 22952583, 76155895, 54>>, <<0, 23306663, 235631493, 55>>,
        <<0, 18506339, 51665927, 106>>, <<1, 23306663, 235631488, 55>>,
        <<1, 22952583, 76155893, 54>>, <<1, 16777216, 2, 53>>, <<1, 21568373, 37492250, 53>>,
        <<1, 25704186, 47140920, 53>>, <<1, 29058990, 140004521, 53>>,
        <<1, 31530852, 38939932, 53>>, <<1, 33044664, 209787927, 53>>, <<1, 16777216, 0, 52>>,
        <<1, 33044664, 209787928, 53>>, <<1, 31530852, 38939931, 53>>,
        <<1, 29058990, 140004526, 53>>, <<1, 25704186, 47140921, 53>>,
        <<1, 21568373, 37492254, 53>>, <<1, 33554431, 268435449, 54>>,
        <<1, 22952583, 76155890, 54>>, <<1, 23306663, 235631497, 55>>>>,
      <<<<0, 18506339, 51665927, 106>>, <<0, 22682906, 35899165, 55>>,
        <<0, 22356633, 47870807, 54>>, <<0, 32728653, 176597471, 54>>,
        <<0, 21079565, 48398058, 53>>, <<0, 25188382, 220354850, 53>>,
        <<0, 28572576, 147127066, 53>>, <<0, 31134789, 72468679, 53>>,
        <<0, 32801310, 212470391, 53>>, <<0, 33524198, 86647014, 53>>,
        <<0, 33282655, 189425341, 53>>, <<0, 32083631, 182930773, 53>>,
        <<0, 29961619, 265300489, 53>>, <<0, 26977667, 10493851, 53>>,
        <<0, 23217615, 195223439, 53>>, <<0, 18789635, 237073736, 53>>,
        <<0, 27642224, 228126208, 54>>, <<0, 16909961, 121461139, 54>>,
        <<0, 22764917, 2170284, 56>>, <<1, 22764917, 2170243, 56>>,
        <<1, 16909961, 121461144, 54>>, <<1, 27642224, 228126206, 54>>,
        <<1, 18789635, 237073732, 53>>, <<1, 23217615, 195223438, 53>>,
        <<1, 26977667, 10493852, 53>>, <<1, 29961619, 265300489, 53>>,
        <<1, 32083631, 182930773, 53>>, <<1, 33282655, 189425341, 53>>,
        <<1, 33524198, 86647015, 53>>, <<1, 32801310, 212470391, 53>>,
        <<1, 31134789, 72468679, 53>>, <<1, 28572576, 147127068, 53>>,
        <<1, 25188382, 220354851, 53>>, <<1, 21079565, 48398057, 53>>,
        <<1, 32728653, 176597463, 54>>, <<1, 22356633, 47870809, 54>>,
        <<1, 22682906, 35899185, 55>>>>,
      <<<<0, 18506339, 51665927, 106>>, <<0, 22091511, 254630088, 55>>,
        <<0, 21790212, 139513771, 54>>, <<0, 31940288, 233667567, 54>>,
        <<0, 20609558, 188302371, 53>>, <<0, 24686797, 250035728, 53>>,
        <<0, 28090645, 179191269, 53>>, <<0, 30728253, 219220744, 53>>,
        <<0, 32527675, 81669656, 53>>, <<0, 33439826, 161825450, 53>>,
        <<0, 33439826, 161825450, 53>>, <<0, 32527675, 81669657, 53>>,
        <<0, 30728253, 219220744, 53>>, <<0, 28090645, 179191267, 53>>,
        <<0, 24686797, 250035728, 53>>, <<0, 20609558, 188302372, 53>>,
        <<0, 31940288, 233667567, 54>>, <<0, 21790212, 139513764, 54>>,
        <<0, 22091511, 254630088, 55>>, <<0, 18506339, 51665927, 106>>,
        <<1, 22091511, 254630083, 55>>, <<1, 21790212, 139513769, 54>>,
        <<1, 31940288, 233667558, 54>>, <<1, 20609558, 188302368, 53>>,
        <<1, 24686797, 250035727, 53>>, <<1, 28090645, 179191268, 53>>,
        <<1, 30728253, 219220746, 53>>, <<1, 32527675, 81669657, 53>>,
        <<1, 33439826, 161825450, 53>>, <<1, 33439826, 161825450, 53>>,
        <<1, 32527675, 81669657, 53>>, <<1, 30728253, 219220747, 53>>,
        <<1, 28090645, 179191270, 53>>, <<1, 24686797, 250035726, 53>>,
        <<1, 20609558, 188302366, 53>>, <<1, 31940288, 233667576, 54>>,
        <<1, 21790212, 139513773, 54>>, <<1, 22091511, 254630076, 55>>>>,
      <<<<0, 18506339, 51665927, 106>>, <<0, 21530037, 177784392, 55>>,
        <<0, 21251229, 88362471, 54>>, <<0, 31187044, 40354941, 54>>,
        <<0, 20157565, 122111100, 53>>, <<0, 24199538, 128213258, 53>>,
        <<0, 27614756, 44352466, 53>>, <<0, 30314766, 46574765, 53>>,
        <<0, 32229639, 177570937, 53>>, <<0, 33309782, 110520169, 53>>,
        <<0, 33527219, 78999496, 53>>, <<0, 32876318, 216946297, 53>>,
        <<0, 31373938, 250741063, 53>>, <<0, 29058990, 140004521, 53>>,
        <<0, 25991429, 139186101, 53>>, <<0, 22250704, 38547334, 53>>,
        <<0, 17933697, 58822028, 53>>, <<0, 26304433, 245253595, 54>>,
        <<0, 32120404, 197430714, 55>>, <<0, 21600080, 17778395, 56>>,
        <<1, 21600080, 17778386, 56>>, <<1, 32120404, 197430725, 55>>,
        <<1, 26304433, 245253585, 54>>, <<1, 17933697, 58822023, 53>>,
        <<1, 22250704, 38547330, 53>>, <<1, 25991429, 139186103, 53>>,
        <<1, 29058990, 140004525, 53>>, <<1, 31373938, 250741062, 53>>,
        <<1, 32876318, 216946296, 53>>, <<1, 33527219, 78999496, 53>>,
        <<1, 33309782, 110520170, 53>>, <<1, 32229639, 177570939, 53>>,
        <<1, 30314766, 46574766, 53>>, <<1, 27614756, 44352467, 53>>,
        <<1, 24199538, 128213258, 53>>, <<1, 20157565, 122111099, 53>>,
        <<1, 31187044, 40354936, 54>>, <<1, 21251229, 88362466, 54>>,
        <<1, 21530037, 177784404, 55>>>>,
      <<<<0, 18506339, 51665927, 106>>, <<0, 20996278, 128471927, 55>>,
        <<0, 20737779, 120580432, 54>>, <<0, 30466786, 189062657, 54>>,
        <<0, 19722800, 74799710, 53>>, <<0, 23726566, 109001677, 53>>,
        <<0, 27146105, 194507944, 53>>, <<0, 29897217, 222112877, 53>>,
        <<0, 31912161, 54809855, 53>>, <<0, 33141321, 70247516, 53>>, <<0, 16777216, 0, 52>>,
        <<0, 33141321, 70247516, 53>>, <<0, 31912161, 54809855, 53>>,
        <<0, 29897217, 222112877, 53>>, <<0, 27146105, 194507944, 53>>,
        <<0, 23726566, 109001677, 53>>, <<0, 19722800, 74799710, 53>>,
        <<0, 30466786, 189062657, 54>>, <<0, 20737779, 120580432, 54>>,
        <<0, 20996278, 128471927, 55>>, <<0, 18506339, 51665927, 106>>,
        <<1, 20996278, 128471923, 55>>, <<1, 20737779, 120580423, 54>>,
        <<1, 30466786, 189062655, 54>>, <<1, 19722800, 74799709, 53>>,
        <<1, 23726566, 109001676, 53>>, <<1, 27146105, 194507943, 53>>,
        <<1, 29897217, 222112876, 53>>, <<1, 31912161, 54809855, 53>>,
        <<1, 33141321, 70247515, 53>>, <<1, 16777216, 0, 52>>, <<1, 33141321, 70247516, 53>>,
        <<1, 31912161, 54809856, 53>>, <<1, 29897217, 222112877, 53>>,
        <<1, 27146105, 194507945, 53>>, <<1, 23726566, 109001678, 53>>,
        <<1, 19722800, 74799711, 53>>, <<1, 30466786, 189062659, 54>>,
        <<1, 20737779, 120580434, 54>>, <<1, 20996278, 128471931, 55>>>>,
      <<<<0, 18506339, 51665927, 106>>, <<0, 20488240, 29174528, 55>>,
        <<0, 20248126, 165657790, 54>>, <<0, 29777534, 68052642, 54>>,
        <<0, 19304490, 231562306, 53>>, <<0, 23267733, 186407814, 53>>,
        <<0, 26685600, 152801230, 53>>, <<0, 29477979, 156862448, 53>>,
        <<0, 31579419, 199288345, 53>>, <<0, 32940665, 18030463, 53>>,
        <<0, 33529809, 32740829, 53>>, <<0, 33333042, 233404338, 53>>,
        <<0, 32354978, 92326960, 53>>, <<0, 30618540, 147321801, 53>>,
        <<0, 28164430, 30680975, 53>>, <<0, 25050169, 82935694, 53>>,
        <<0, 21348753, 205772009, 53>>, <<0, 17146941, 142334642, 53>>,
        <<0, 25086439, 9406081, 54>>, <<0, 30581980, 75646968, 55>>,
        <<0, 20548533, 158812876, 56>>, <<1, 20548533, 158812867, 56>>,
        <<1, 30581980, 75646948, 55>>, <<1, 25086439, 9406079, 54>>,
        <<1, 17146941, 142334641, 53>>, <<1, 21348753, 205772011, 53>>,
        <<1, 25050169, 82935693, 53>>, <<1, 28164430, 30680972, 53>>,
        <<1, 30618540, 147321801, 53>>, <<1, 32354978, 92326960, 53>>,
        <<1, 33333042, 233404337, 53>>, <<1, 33529809, 32740829, 53>>,
        <<1, 32940665, 18030463, 53>>, <<1, 31579419, 199288345, 53>>,
        <<1, 29477979, 156862447, 53>>, <<1, 26685600, 152801233, 53>>,
        <<1, 23267733, 186407815, 53>>, <<1, 19304490, 231562304, 53>>,
        <<1, 29777534, 68052647, 54>>, <<1, 20248126, 165657788, 54>>,
        <<1, 20488240, 29174548, 55>>>>,
      <<<<0, 18506339, 51665927, 106>>, <<0, 20004114, 91841803, 55>>,
        <<0, 19780684, 245037993, 54>>, <<0, 29117444, 225553346, 54>>,
        <<0, 18901884, 156372205, 53>>, <<0, 22822809, 235629461, 53>>,
        <<0, 26233911, 84270667, 53>>, <<0, 29058990, 140004522, 53>>,
        <<0, 31234939, 241448846, 53>>, <<0, 32713152, 89713001, 53>>,
        <<0, 33460607, 713421, 53>>, <<0, 33460607, 713421, 53>>,
        <<0, 32713152, 89713001, 53>>, <<0, 31234939, 241448846, 53>>,
        <<0, 29058990, 140004523, 53>>, <<0, 26233911, 84270667, 53>>,
        <<0, 22822809, 235629461, 53>>, <<0, 18901884, 156372203, 53>>,
        <<0, 29117444, 225553346, 54>>, <<0, 19780684, 245037997, 54>>,
        <<0, 20004114, 91841811, 55>>, <<0, 18506339, 51665927, 106>>,
        <<1, 20004114, 91841791, 55>>, <<1, 19780684, 245037987, 54>>,
        <<1, 29117444, 225553344, 54>>, <<1, 18901884, 156372205, 53>>,
        <<1, 22822809, 235629463, 53>>, <<1, 26233911, 84270667, 53>>,
        <<1, 29058990, 140004521, 53>>, <<1, 31234939, 241448847, 53>>,
        <<1, 32713152, 89713001, 53>>, <<1, 33460607, 713421, 53>>,
        <<1, 33460607, 713421, 53>>, <<1, 32713152, 89713001, 53>>,
        <<1, 31234939, 241448845, 53>>, <<1, 29058990, 140004526, 53>>,
        <<1, 26233911, 84270668, 53>>, <<1, 22822809, 235629458, 53>>,
        <<1, 18901884, 156372210, 53>>, <<1, 29117444, 225553348, 54>>,
        <<1, 19780684, 245037999, 54>>, <<1, 20004114, 91841832, 55>>>>,
      <<<<0, 18506339, 51665927, 106>>, <<0, 19542257, 248984428, 55>>,
        <<0, 19334003, 74577872, 54>>, <<0, 28484806, 235886589, 54>>,
        <<0, 18514253, 36903314, 53>>, <<0, 22391503, 180785232, 53>>,
        <<0, 25791518, 49309781, 53>>, <<0, 28641831, 70269312, 53>>,
        <<0, 30881693, 116240841, 53>>, <<0, 32463365, 248040261, 53>>,
        <<0, 33353138, 35332132, 53>>, <<0, 33532046, 28455637, 53>>,
        <<0, 32996276, 197114382, 53>>, <<0, 31757249, 2821908, 53>>,
        <<0, 29841370, 177009656, 53>>, <<0, 27289475, 81016280, 53>>,
        <<0, 24155952, 42084359, 53>>, <<0, 20507586, 222770217, 53>>,
        <<0, 32844275, 211507497, 54>>, <<0, 23973359, 53757746, 54>>,
        <<0, 29182984, 44344916, 55>>, <<0, 19594530, 154850801, 56>>,
        <<1, 19594530, 154850761, 56>>, <<1, 29182984, 44344896, 55>>,
        <<1, 23973359, 53757744, 54>>, <<1, 32844275, 211507502, 54>>,
        <<1, 20507586, 222770219, 53>>, <<1, 24155952, 42084358, 53>>,
        <<1, 27289475, 81016279, 53>>, <<1, 29841370, 177009656, 53>>,
        <<1, 31757249, 2821907, 53>>, <<1, 32996276, 197114382, 53>>,
        <<1, 33532046, 28455637, 53>>, <<1, 33353138, 35332132, 53>>,
        <<1, 32463365, 248040261, 53>>, <<1, 30881693, 116240843, 53>>,
        <<1, 28641831, 70269311, 53>>, <<1, 25791518, 49309781, 53>>,
        <<1, 22391503, 180785232, 53>>, <<1, 18514253, 36903316, 53>>,
        <<1, 28484806, 235886599, 54>>, <<1, 19334003, 74577882, 54>>,
        <<1, 19542257, 248984424, 55>>>>,
      <<<<0, 18506339, 51665927, 106>>, <<0, 19101174, 68109530, 55>>,
        <<0, 18906751, 225873345, 54>>, <<0, 27878029, 164041398, 54>>,
        <<0, 18140895, 146495500, 53>>, <<0, 21973479, 259479687, 53>>,
        <<0, 25358747, 188360865, 53>>, <<0, 28227784, 124055738, 53>>,
        <<0, 30522184, 250489876, 53>>, <<0, 32195241, 198004823, 53>>,
        <<0, 33212896, 70796016, 53>>, <<0, 16777216, 0, 52>>, <<0, 33212896, 70796016, 53>>,
        <<0, 32195241, 198004823, 53>>, <<0, 30522184, 250489876, 53>>,
        <<0, 28227784, 124055739, 53>>, <<0, 25358747, 188360865, 53>>,
        <<0, 21973479, 259479687, 53>>, <<0, 18140895, 146495500, 53>>,
        <<0, 27878029, 164041402, 54>>, <<0, 18906751, 225873342, 54>>,
        <<0, 19101174, 68109530, 55>>, <<0, 19090508, 107121537, 103>>,
        <<1, 19101174, 68109526, 55>>, <<1, 18906751, 225873339, 54>>,
        <<1, 27878029, 164041400, 54>>, <<1, 18140895, 146495500, 53>>,
        <<1, 21973479, 259479686, 53>>, <<1, 25358747, 188360864, 53>>,
        <<1, 28227784, 124055739, 53>>, <<1, 30522184, 250489873, 53>>,
        <<1, 32195241, 198004823, 53>>, <<1, 33212896, 70796015, 53>>, <<1, 16777216, 0, 52>>,
        <<1, 33212896, 70796016, 53>>, <<1, 32195241, 198004824, 53>>,
        <<1, 30522184, 250489877, 53>>, <<1, 28227784, 124055736, 53>>,
        <<1, 25358747, 188360868, 53>>, <<1, 21973479, 259479691, 53>>,
        <<1, 18140895, 146495498, 53>>, <<1, 27878029, 164041411, 54>>,
        <<1, 18906751, 225873344, 54>>, <<1, 19101174, 68109534, 55>>>>,
      <<<<0, 18506339, 51665927, 106>>, <<0, 18679497, 109944346, 55>>,
        <<0, 18497709, 221417001, 54>>, <<0, 27295634, 17177297, 54>>,
        <<0, 17781139, 246209834, 53>>, <<0, 21568373, 37492253, 53>>,
        <<0, 24935802, 137608898, 53>>, <<0, 27817884, 229174949, 53>>,
        <<0, 30158523, 190200010, 53>>, <<0, 31912161, 54809855, 53>>,
        <<0, 33044664, 209787927, 53>>, <<0, 33533991, 146736487, 53>>,
        <<0, 33370617, 83388358, 53>>, <<0, 32557721, 259635749, 53>>,
        <<0, 31111127, 160942936, 53>>, <<0, 29058990, 140004523, 53>>,
        <<0, 26441253, 66347985, 53>>, <<0, 23308867, 14709519, 53>>,
        <<0, 19722800, 74799710, 53>>, <<0, 31505703, 69488765, 54>>,
        <<0, 22952583, 76155895, 54>>, <<0, 27905434, 205674738, 55>>,
        <<0, 18725110, 225071411, 56>>, <<1, 18725110, 225071370, 56>>,
        <<1, 27905434, 205674734, 55>>, <<1, 22952583, 76155893, 54>>,
        <<1, 31505703, 69488763, 54>>, <<1, 19722800, 74799709, 53>>,
        <<1, 23308867, 14709521, 53>>, <<1, 26441253, 66347987, 53>>,
        <<1, 29058990, 140004521, 53>>, <<1, 31111127, 160942935, 53>>,
        <<1, 32557721, 259635749, 53>>, <<1, 33370617, 83388359, 53>>,
        <<1, 33533991, 146736487, 53>>, <<1, 33044664, 209787928, 53>>,
        <<1, 31912161, 54809856, 53>>, <<1, 30158523, 190200009, 53>>,
        <<1, 27817884, 229174952, 53>>, <<1, 24935802, 137608901, 53>>,
        <<1, 21568373, 37492254, 53>>, <<1, 17781139, 246209842, 53>>,
        <<1, 27295634, 17177295, 54>>, <<1, 18497709, 221417011, 54>>,
        <<1, 18679497, 109944359, 55>>>>,
      <<<<0, 18506339, 51665927, 106>>, <<0, 18275978, 72765194, 55>>,
        <<0, 18105754, 220980325, 54>>, <<0, 26736244, 149234868, 54>>,
        <<0, 17434344, 85833674, 53>>, <<0, 21175797, 137951216, 53>>,
        <<0, 24522785, 178918874, 53>>, <<0, 27412960, 193559722, 53>>,
        <<0, 29792484, 49576713, 53>>, <<0, 31617030, 10064520, 53>>,
        <<0, 32852610, 118760823, 53>>, <<0, 33476208, 234700539, 53>>,
        <<0, 33476208, 234700539, 53>>, <<0, 32852610, 118760822, 53>>,
        <<0, 31617030, 10064520, 53>>, <<0, 29792484, 49576713, 53>>,
        <<0, 27412960, 193559722, 53>>, <<0, 24522785, 178918872, 53>>,
        <<0, 21175797, 137951217, 53>>, <<0, 17434344, 85833676, 53>>,
        <<0, 26736244, 149234864, 54>>, <<0, 18105754, 220980325, 54>>,
        <<0, 18275978, 72765210, 55>>, <<0, 18506339, 51665927, 106>>,
        <<1, 18275978, 72765189, 55>>, <<1, 18105754, 220980330, 54>>,
        <<1, 26736244, 149234869, 54>>, <<1, 17434344, 85833672, 53>>,
        <<1, 21175797, 137951216, 53>>, <<1, 24522785, 178918874, 53>>,
        <<1, 27412960, 193559721, 53>>, <<1, 29792484, 49576711, 53>>,
        <<1, 31617030, 10064519, 53>>, <<1, 32852610, 118760823, 53>>,
        <<1, 33476208, 234700540, 53>>, <<1, 33476208, 234700539, 53>>,
        <<1, 32852610, 118760823, 53>>, <<1, 31617030, 10064520, 53>>,
        <<1, 29792484, 49576715, 53>>, <<1, 27412960, 193559722, 53>>,
        <<1, 24522785, 178918872, 53>>, <<1, 21175797, 137951218, 53>>,
        <<1, 17434344, 85833674, 53>>, <<1, 26736244, 149234873, 54>>,
        <<1, 18105754, 220980342, 54>>, <<1, 18275978, 72765182, 55>>>>,
      <<<<0, 18506339, 51665927, 106>>, <<0, 17889472, 86518359, 55>>,
        <<0, 17729853, 78814123, 54>>, <<0, 26198580, 207770533, 54>>,
        <<0, 17099896, 263044950, 53>>, <<0, 20795355, 135861650, 53>>,
        <<0, 24119720, 112923140, 53>>, <<0, 27013668, 94732267, 53>>,
        <<0, 29425556, 196874762, 53>>, <<0, 31312345, 95808347, 53>>,
        <<0, 32640364, 116961302, 53>>, <<0, 33385915, 117546754, 53>>,
        <<0, 33535693, 265257313, 53>>, <<0, 33087027, 76431934, 53>>,
        <<0, 32047921, 213556386, 53>>, <<0, 30436920, 102734760, 53>>,
        <<0, 28282771, 108603740, 53>>, <<0, 25623915, 188092210, 53>>,
        <<0, 22507800, 164844850, 53>>, <<0, 18990033, 78467321, 53>>,
        <<0, 30266776, 202157985, 54>>, <<0, 22013375, 153914169, 54>>,
        <<0, 26734290, 99342256, 55>>, <<0, 17929511, 25987965, 56>>,
        <<1, 17929511, 25987957, 56>>, <<1, 26734290, 99342252, 55>>,
        <<1, 22013375, 153914174, 54>>, <<1, 30266776, 202157976, 54>>,
        <<1, 18990033, 78467317, 53>>, <<1, 22507800, 164844852, 53>>,
        <<1, 25623915, 188092210, 53>>, <<1, 28282771, 108603740, 53>>,
        <<1, 30436920, 102734759, 53>>, <<1, 32047921, 213556386, 53>>,
        <<1, 33087027, 76431934, 53>>, <<1, 33535693, 265257313, 53>>,
        <<1, 33385915, 117546754, 53>>, <<1, 32640364, 116961302, 53>>,
        <<1, 31312345, 95808348, 53>>, <<1, 29425556, 196874765, 53>>,
        <<1, 27013668, 94732271, 53>>, <<1, 24119720, 112923143, 53>>,
        <<1, 20795355, 135861647, 53>>, <<1, 17099896, 263044952, 53>>,
        <<1, 26198580, 207770539, 54>>, <<1, 17729853, 78814125, 54>>,
        <<1, 17889472, 86518363, 55>>>>,
      <<<<0, 18506339, 51665927, 106>>, <<0, 17518928, 258843349, 55>>,
        <<0, 17369052, 26412688, 54>>, <<0, 25681450, 112109924, 54>>,
        <<0, 33554431, 268435454, 54>>, <<0, 20426643, 261428202, 53>>,
        <<0, 23726566, 109001677, 53>>, <<0, 26620520, 190260370, 53>>,
        <<0, 29058990, 140004522, 53>>, <<0, 31000252, 254971206, 53>>,
        <<0, 32411092, 122208021, 53>>, <<0, 33267369, 49047707, 53>>, <<0, 16777216, 0, 52>>,
        <<0, 33267369, 49047707, 53>>, <<0, 32411092, 122208021, 53>>,
        <<0, 31000252, 254971207, 53>>, <<0, 29058990, 140004523, 53>>,
        <<0, 26620520, 190260369, 53>>, <<0, 23726566, 109001677, 53>>,
        <<0, 20426643, 261428203, 53>>, <<0, 33554431, 268435454, 54>>,
        <<0, 25681450, 112109924, 54>>, <<0, 17369052, 26412692, 54>>,
        <<0, 17518928, 258843357, 55>>, <<0, 18506339, 51665927, 106>>,
        <<1, 17518928, 258843353, 55>>, <<1, 17369052, 26412690, 54>>,
        <<1, 25681450, 112109922, 54>>, <<1, 33554431, 268435452, 54>>,
        <<1, 20426643, 261428202, 53>>, <<1, 23726566, 109001673, 53>>,
        <<1, 26620520, 190260369, 53>>, <<1, 29058990, 140004521, 53>>,
        <<1, 31000252, 254971207, 53>>, <<1, 32411092, 122208021, 53>>,
        <<1, 33267369, 49047707, 53>>, <<1, 16777216, 0, 52>>, <<1, 33267369, 49047708, 53>>,
        <<1, 32411092, 122208022, 53>>, <<1, 31000252, 254971208, 53>>,
        <<1, 29058990, 140004522, 53>>, <<1, 26620520, 190260375, 53>>,
        <<1, 23726566, 109001678, 53>>, <<1, 20426643, 261428204, 53>>, <<1, 16777216, 4, 53>>,
        <<1, 25681450, 112109918, 54>>, <<1, 17369052, 26412702, 54>>,
        <<1, 17518928, 258843346, 55>>>>,
      <<<<0, 18506339, 51665927, 106>>, <<0, 17163382, 28020111, 55>>,
        <<0, 17022470, 261606381, 54>>, <<0, 25183742, 105800415, 54>>,
        <<0, 32931497, 123438755, 54>>, <<0, 20069259, 33246116, 53>>,
        <<0, 23343232, 224898243, 53>>, <<0, 26233911, 84270667, 53>>,
        <<0, 28693829, 185637883, 53>>, <<0, 30682596, 48030006, 53>>,
        <<0, 32167555, 76585877, 53>>, <<0, 33124324, 6232774, 53>>,
        <<0, 33537192, 74207178, 53>>, <<0, 33399380, 203923488, 53>>,
        <<0, 32713152, 89713001, 53>>, <<0, 31489774, 228657613, 53>>,
        <<0, 29749336, 36759551, 53>>, <<0, 27520414, 38966155, 53>>,
        <<0, 24839607, 191652143, 53>>, <<0, 21750935, 163966903, 53>>,
        <<0, 18305113, 200332326, 53>>, <<0, 29117444, 225553346, 54>>,
        <<0, 21146554, 147271622, 54>>, <<0, 25656876, 223309793, 55>>,
        <<0, 17198718, 192345561, 56>>, <<1, 17198718, 192345552, 56>>,
        <<1, 25656876, 223309788, 55>>, <<1, 21146554, 147271612, 54>>,
        <<1, 29117444, 225553344, 54>>, <<1, 18305113, 200332326, 53>>,
        <<1, 21750935, 163966899, 53>>, <<1, 24839607, 191652143, 53>>,
        <<1, 27520414, 38966154, 53>>, <<1, 29749336, 36759551, 53>>,
        <<1, 31489774, 228657614, 53>>, <<1, 32713152, 89713001, 53>>,
        <<1, 33399380, 203923488, 53>>, <<1, 33537192, 74207178, 53>>,
        <<1, 33124324, 6232776, 53>>, <<1, 32167555, 76585877, 53>>,
        <<1, 30682596, 48030006, 53>>, <<1, 28693829, 185637885, 53>>,
        <<1, 26233911, 84270668, 53>>, <<1, 23343232, 224898247, 53>>,
        <<1, 20069259, 33246124, 53>>, <<1, 32931497, 123438753, 54>>,
        <<1, 25183742, 105800421, 54>>, <<1, 17022470, 261606384, 54>>,
        <<1, 17163382, 28020132, 55>>>>,
      <<<<0, 18506339, 51665927, 106>>, <<0, 16821941, 228678624, 55>>,
        <<0, 33378591, 169609108, 55>>, <<0, 24704420, 145271067, 54>>,
        <<0, 32329941, 213887314, 54>>, <<0, 19722800, 74799710, 53>>,
        <<0, 22969589, 85008403, 53>>, <<0, 25854134, 56323050, 53>>,
        <<0, 28330943, 258223751, 53>>, <<0, 30360957, 215750028, 53>>,
        <<0, 31912161, 54809855, 53>>, <<0, 32960090, 203753983, 53>>,
        <<0, 33488219, 266617854, 53>>, <<0, 33488219, 266617854, 53>>,
        <<0, 32960090, 203753983, 53>>, <<0, 31912161, 54809856, 53>>,
        <<0, 30360957, 215750027, 53>>, <<0, 28330943, 258223748, 53>>,
        <<0, 25854134, 56323049, 53>>, <<0, 22969589, 85008405, 53>>,
        <<0, 19722800, 74799710, 53>>, <<0, 32329941, 213887311, 54>>,
        <<0, 24704420, 145271067, 54>>, <<0, 33378591, 169609124, 55>>,
        <<0, 16821941, 228678632, 55>>, <<0, 18506339, 51665927, 106>>,
        <<1, 16821941, 228678628, 55>>, <<1, 33378591, 169609104, 55>>,
        <<1, 24704420, 145271065, 54>>, <<1, 32329941, 213887316, 54>>,
        <<1, 19722800, 74799706, 53>>, <<1, 22969589, 85008401, 53>>,
        <<1, 25854134, 56323051, 53>>, <<1, 28330943, 258223752, 53>>,
        <<1, 30360957, 215750030, 53>>, <<1, 31912161, 54809855, 53>>,
        <<1, 32960090, 203753983, 53>>, <<1, 33488219, 266617854, 53>>,
        <<1, 33488219, 266617854, 53>>, <<1, 32960090, 203753983, 53>>,
        <<1, 31912161, 54809856, 53>>, <<1, 30360957, 215750031, 53>>,
        <<1, 28330943, 258223749, 53>>, <<1, 25854134, 56323053, 53>>,
        <<1, 22969589, 85008406, 53>>, <<1, 19722800, 74799711, 53>>,
        <<1, 32329941, 213887327, 54>>, <<1, 24704420, 145271062, 54>>,
        <<1, 33378591, 169609128, 55>>, <<1, 16821941, 228678636, 55>>>>>>

\* math.sin(angle) for the same angles
RadialSin ==
    <<<<<<1, 16777216, 0, 52>>>>,
      <<<<1, 16777216, 0, 52>>, <<0, 16777216, 0, 52>>>>,
      <<<<1, 16777216, 0, 52>>, <<0, 33554431, 268435453, 54>>, <<0, 16777216, 3, 53>>>>,
      <<<<1, 16777216, 0, 52>>, <<0, 0, 0, 0>>, <<0, 16777216, 0, 52>>,
        <<0, 18506339, 51665927, 105>>>>,
      <<<<1, 16777216, 0, 52>>, <<1, 20737779, 120580431, 54>>, <<0, 27146105, 194507944, 53>>,
        <<0, 27146105, 194507944, 53>>, <<1, 20737779, 120580429, 54>>>>,
      <<<<1, 16777216, 0, 52>>, <<1, 16777216, 0, 53>>, <<0, 33554431, 268435453, 54>>,
        <<0, 16777216, 0, 52>>, <<0, 16777216, 3, 53>>, <<1, 16777216, 1, 53>>>>,
      <<<<1, 16777216, 0, 52>>, <<1, 20920846, 42724817, 53>>, <<0, 29866254, 50480514, 55>>,
        <<0, 30231498, 164322417, 53>>, <<0, 30231498, 164322417, 53>>,
        <<0, 29866254, 50480518, 55>>, <<1, 20920846, 42724816, 53>>>>,
      <<<<1, 16777216, 0, 52>>, <<1, 23726566, 109001676, 53>>, <<0, 0, 0, 0>>,
        <<0, 23726566, 109001676, 53>>, <<0, 16777216, 0, 52>>, <<0, 23726566, 109001677, 53>>,
        <<0, 18506339, 51665927, 105>>, <<1, 23726566, 109001676, 53>>>>,
      <<<<1, 16777216, 0, 52>>, <<1, 25704186, 47140921, 53>>, <<1, 23306663, 235631498, 55>>,
        <<0, 33554431, 268435453, 54>>, <<0, 31530852, 38939931, 53>>,
        <<0, 31530852, 38939932, 53>>, <<0, 16777216, 3, 53>>, <<1, 23306663, 235631486, 55>>,
        <<1, 25704186, 47140920, 53>>>>,
      <<<<1, 16777216, 0, 52>>, <<1, 27146105, 194507944, 53>>, <<1, 20737779, 120580431, 54>>,
        <<0, 20737779, 120580431, 54>>, <<0, 27146105, 194507944, 53>>, <<0, 16777216, 0, 52>>,
        <<0, 27146105, 194507944, 53>>, <<0, 20737779, 120580433, 54>>,
        <<1, 20737779, 120580429, 54>>, <<1, 27146105, 194507943, 53>>>>,
      <<<<1, 16777216, 0, 52>>, <<1, 28227784, 124055737, 53>>, <<1, 27878029, 164041397, 54>>,
        <<0, 19101174, 68109528, 55>>, <<0, 21973479, 259479687, 53>>,
        <<0, 32195241, 198004823, 53>>, <<0, 32195241, 198004824, 53>>,
        <<0, 21973479, 259479688, 53>>, <<0, 19101174, 68109532, 55>>,
        <<1, 27878029, 164041392, 54>>, <<1, 28227784, 124055738, 53>>>>,
      <<<<1, 16777216, 0, 52>>, <<1, 29058990, 140004523, 53>>, <<1, 16777216, 0, 53>>,
        <<0, 0, 0, 0>>, <<0, 33554431, 268435453, 54>>, <<0, 29058990, 140004523, 53>>,
        <<0, 16777216, 0, 52>>, <<0, 29058990, 140004523, 53>>, <<0, 16777216, 3, 53>>,
        <<0, 18506339, 51665927, 105>>, <<1, 16777216, 1, 53>>, <<1, 29058990, 140004520, 53>>>>,
      <<<<1, 16777216, 0, 52>>, <<1, 29710974, 475369, 53>>, <<1, 19061089, 245829913, 53>>,
        <<1, 32356318, 195706577, 56>>, <<0, 23797131, 37117343, 54>>,
        <<0, 25115853, 208397, 53>>, <<0, 32579401, 50674944, 53>>,
        <<0, 32579401, 50674945, 53>>, <<0, 25115853, 208398, 53>>,
        <<0, 23797131, 37117349, 54>>, <<1, 32356318, 195706600, 56>>,
        <<1, 19061089, 245829905, 53>>, <<1, 29710974, 475370, 53>>>>,
      <<<<1, 16777216, 0, 52>>, <<1, 30231498, 164322417, 53>>, <<1, 20920846, 42724817, 53>>,
        <<1, 29866254, 50480514, 55>>, <<0, 29866254, 50480514, 55>>,
        <<0, 20920846, 42724817, 53>>, <<0, 30231498, 164322417, 53>>, <<0, 16777216, 0, 52>>,
        <<0, 30231498, 164322417, 53>>, <<0, 20920846, 42724818, 53>>,
        <<0, 29866254, 50480518, 55>>, <<1, 29866254, 50480479, 55>>,
        <<1, 20920846, 42724816, 53>>, <<1, 30231498, 164322420, 53>>>>,
      <<<<1, 16777216, 0, 52>>, <<1, 30653498, 251625365, 53>>, <<1, 22452297, 115477464, 53>>,
        <<1, 20737779, 120580431, 54>>, <<0, 28059145, 188503910, 56>>,
        <<0, 33554431, 268435453, 54>>, <<0, 27146105, 194507944, 53>>,
        <<0, 32821187, 41549952, 53>>, <<0, 32821187, 41549952, 53>>,
        <<0, 27146105, 194507944, 53>>, <<0, 16777216, 3, 53>>, <<0, 28059145, 188503967, 56>>,
        <<1, 20737779, 120580429, 54>>, <<1, 22452297, 115477467, 53>>,
        <<1, 30653498, 251625366, 53>>>>,
      <<<<1, 16777216, 0, 52>>, <<1, 31000252, 254971206, 53>>, <<1, 23726566, 109001676, 53>>,
        <<1, 25681450, 112109923, 54>>, <<0, 0, 0, 0>>, <<0, 25681450, 112109923, 54>>,
        <<0, 23726566, 109001676, 53>>, <<0, 31000252, 254971206, 53>>, <<0, 16777216, 0, 52>>,
        <<0, 31000252, 254971206, 53>>, <<0, 23726566, 109001677, 53>>,
        <<0, 25681450, 112109932, 54>>, <<0, 18506339, 51665927, 105>>,
        <<1, 25681450, 112109928, 54>>, <<1, 23726566, 109001676, 53>>,
        <<1, 31000252, 254971204, 53>>>>,
      <<<<1, 16777216, 0, 52>>, <<1, 31288576, 3606929, 53>>, <<1, 24797024, 123553924, 53>>,
        <<1, 29912994, 187204557, 54>>, <<1, 24768099, 39434074, 56>>,
        <<0, 18365212, 102698242, 54>>, <<0, 20221062, 248902074, 53>>,
        <<0, 28528553, 17736632, 53>>, <<0, 32983104, 8367859, 53>>,
        <<0, 32983104, 8367859, 53>>, <<0, 28528553, 17736633, 53>>,
        <<0, 20221062, 248902082, 53>>, <<0, 18365212, 102698244, 54>>,
        <<1, 24768099, 39434113, 56>>, <<1, 29912994, 187204548, 54>>,
        <<1, 24797024, 123553920, 53>>, <<1, 31288576, 3606929, 53>>>>,
      <<<<1, 16777216, 0, 52>>, <<1, 31530852, 38939931, 53>>, <<1, 25704186, 47140921, 53>>,
        <<1, 16777216, 0, 53>>, <<1, 23306663, 235631498, 55>>, <<0, 23306663, 235631498, 55>>,
        <<0, 33554431, 268435453, 54>>, <<0, 25704186, 47140920, 53>>,
        <<0, 31530852, 38939931, 53>>, <<0, 16777216, 0, 52>>, <<0, 31530852, 38939932, 53>>,
        <<0, 25704186, 47140924, 53>>, <<0, 16777216, 3, 53>>, <<0, 23306663, 235631495, 55>>,
        <<1, 23306663, 235631486, 55>>, <<1, 33554431, 268435445, 54>>,
        <<1, 25704186, 47140920, 53>>, <<1, 31530852, 38939932, 53>>>>,
      <<<<1, 16777216, 0, 52>>, <<1, 31736360, 86186977, 53>>, <<1, 26479161, 150588707, 53>>,
        <<1, 18352534, 209176777, 53>>, <<1, 32948504, 91539519, 55>>,
        <<0, 22167224, 69268982, 56>>, <<0, 26957323, 167089898, 54>>,
        <<0, 22725798, 118103294, 53>>, <<0, 29510242, 48491000, 53>>,
        <<0, 33096793, 75821746, 53>>, <<0, 33096793, 75821747, 53>>,
        <<0, 29510242, 48491003, 53>>, <<0, 22725798, 118103295, 53>>,
        <<0, 26957323, 167089889, 54>>, <<0, 22167224, 69269006, 56>>,
        <<1, 32948504, 91539507, 55>>, <<1, 18352534, 209176775, 53>>,
        <<1, 26479161, 150588711, 53>>, <<1, 31736360, 86186977, 53>>>>,
      <<<<1, 16777216, 0, 52>>, <<1, 31912161, 54809855, 53>>, <<1, 27146105, 194507944, 53>>,
        <<1, 19722800, 74799710, 53>>, <<1, 20737779, 120580431, 54>>, <<0, 0, 0, 0>>,
        <<0, 20737779, 120580431, 54>>, <<0, 19722800, 74799710, 53>>,
        <<0, 27146105, 194507944, 53>>, <<0, 31912161, 54809855, 53>>, <<0, 16777216, 0, 52>>,
        <<0, 31912161, 54809857, 53>>, <<0, 27146105, 194507944, 53>>,
        <<0, 19722800, 74799711, 53>>, <<0, 20737779, 120580433, 54>>,
        <<0, 18506339, 51665927, 105>>, <<1, 20737779, 120580429, 54>>,
        <<1, 19722800, 74799709, 53>>, <<1, 27146105, 194507943, 53>>,
        <<1, 31912161, 54809855, 53>>>>,
      <<<<1, 16777216, 0, 52>>, <<1, 32063702, 196709573, 53>>, <<1, 27723972, 206305907, 53>>,
        <<1, 20920846, 42724817, 53>>, <<1, 24517621, 31628430, 54>>,
        <<1, 20060206, 201002990, 56>>, <<0, 29866254, 50480514, 55>>,
        <<0, 33554431, 268435453, 54>>, <<0, 24597139, 49871718, 53>>,
        <<0, 30231498, 164322417, 53>>, <<0, 33179656, 192756761, 53>>,
        <<0, 33179656, 192756762, 53>>, <<0, 30231498, 164322417, 53>>,
        <<0, 24597139, 49871716, 53>>, <<0, 16777216, 3, 53>>, <<0, 29866254, 50480518, 55>>,
        <<1, 20060206, 201002997, 56>>, <<1, 24517621, 31628439, 54>>,
        <<1, 20920846, 42724816, 53>>, <<1, 27723972, 206305904, 53>>,
        <<1, 32063702, 196709572, 53>>>>,
      <<<<1, 16777216, 0, 52>>, <<1, 32195241, 198004823, 53>>, <<1, 28227784, 124055737, 53>>,
        <<1, 21973479, 259479687, 53>>, <<1, 27878029, 164041397, 54>>,
        <<1, 19101174, 68109528, 55>>, <<0, 19101174, 68109528, 55>>,
        <<0, 27878029, 164041397, 54>>, <<0, 21973479, 259479687, 53>>,
        <<0, 28227784, 124055737, 53>>, <<0, 32195241, 198004823, 53>>, <<0, 16777216, 0, 52>>,
        <<0, 32195241, 198004824, 53>>, <<0, 28227784, 124055737, 53>>,
        <<0, 21973479, 259479688, 53>>, <<0, 27878029, 164041410, 54>>,
        <<0, 19101174, 68109532, 55>>, <<1, 19101174, 68109523, 55>>,
        <<1, 27878029, 164041392, 54>>, <<1, 21973479, 259479683, 53>>,
        <<1, 28227784, 124055738, 53>>, <<1, 32195241, 198004823, 53>>>>,
      <<<<1, 16777216, 0, 52>>, <<1, 32310142, 171781564, 53>>, <<1, 28669557, 217254382, 53>>,
        <<1, 22902683, 8191735, 53>>, <<1, 30874442, 12953288, 54>>,
        <<1, 27307403, 220080255, 55>>, <<0, 18318683, 93975479, 56>>,
        <<0, 22473390, 93833079, 54>>, <<0, 19350180, 175594746, 53>>,
        <<0, 26028551, 202822766, 53>>, <<0, 30776504, 66034108, 53>>,
        <<0, 33241904, 56272588, 53>>, <<0, 33241904, 56272589, 53>>,
        <<0, 30776504, 66034107, 53>>, <<0, 26028551, 202822767, 53>>,
        <<0, 19350180, 175594747, 53>>, <<0, 22473390, 93833081, 54>>,
        <<0, 18318683, 93975440, 56>>, <<1, 27307403, 220080243, 55>>,
        <<1, 30874442, 12953279, 54>>, <<1, 22902683, 8191736, 53>>,
        <<1, 28669557, 217254382, 53>>, <<1, 32310142, 171781561, 53>>>>,
      <<<<1, 16777216, 0, 52>>, <<1, 32411092, 122208021, 53>>, <<1, 29058990, 140004523, 53>>,
        <<1, 23726566, 109001676, 53>>, <<1, 16777216, 0, 53>>, <<1, 17369052, 26412687, 54>>,
        <<0, 0, 0, 0>>, <<0, 17369052, 26412687, 54>>, <<0, 33554431, 268435453, 54>>,
        <<0, 23726566, 109001676, 53>>, <<0, 29058990, 140004523, 53>>,
        <<0, 32411092, 122208020, 53>>, <<0, 16777216, 0, 52>>, <<0, 32411092, 122208021, 53>>,
        <<0, 29058990, 140004523, 53>>, <<0, 23726566, 109001680, 53>>, <<0, 16777216, 3, 53>>,
        <<0, 17369052, 26412685, 54>>, <<0, 18506339, 51665927, 105>>,
        <<1, 17369052, 26412681, 54>>, <<1, 16777216, 1, 53>>, <<1, 23726566, 109001676, 53>>,
        <<1, 29058990, 140004520, 53>>, <<1, 32411092, 122208019, 53>>>>,
      <<<<1, 16777216, 0, 52>>, <<1, 32500257, 219160288, 53>>, <<1, 29403972, 243384409, 53>>,
        <<1, 24460128, 64141334, 53>>, <<1, 17979363, 202910544, 53>>,
        <<1, 20737779, 120580431, 54>>, <<1, 16855201, 199267199, 56>>,
        <<0, 25149894, 84114042, 55>>, <<0, 28573564, 153452958, 54>>,
        <<0, 21388399, 246743484, 53>>, <<0, 27146105, 194507944, 53>>,
        <<0, 31198121, 233790180, 53>>, <<0, 33289845, 75553026, 53>>,
        <<0, 33289845, 75553026, 53>>, <<0, 31198121, 233790180, 53>>,
        <<0, 27146105, 194507947, 53>>, <<0, 21388399, 246743482, 53>>,
        <<0, 28573564, 153452946, 54>>, <<0, 25149894, 84114039, 55>>,
        <<1, 16855201, 199267159, 56>>, <<1, 20737779, 120580429, 54>>,
        <<1, 17979363, 202910546, 53>>, <<1, 24460128, 64141332, 53>>,
        <<1, 29403972, 243384405, 53>>, <<1, 32500257, 219160287, 53>>>>,
      <<<<1, 16777216, 0, 52>>, <<1, 32579401, 50674944, 53>>, <<1, 29710974, 475369, 53>>,
        <<1, 25115853, 208396, 53>>, <<1, 19061089, 245829913, 53>>,
        <<1, 23797131, 37117343, 54>>, <<1, 32356318, 195706577, 56>>,
        <<0, 32356318, 195706577, 56>>, <<0, 23797131, 37117343, 54>>,
        <<0, 19061089, 245829912, 53>>, <<0, 25115853, 208397, 53>>,
        <<0, 29710974, 475367, 53>>, <<0, 32579401, 50674944, 53>>, <<0, 16777216, 0, 52>>,
        <<0, 32579401, 50674945, 53>>, <<0, 29710974, 475371, 53>>,
        <<0, 25115853, 208398, 53>>, <<0, 19061089, 245829913, 53>>,
        <<0, 23797131, 37117349, 54>>, <<0, 32356318, 195706617, 56>>,
        <<1, 32356318, 195706600, 56>>, <<1, 23797131, 37117345, 54>>,
        <<1, 19061089, 245829905, 53>>, <<1, 25115853, 208394, 53>>,
        <<1, 29710974, 475370, 53>>, <<1, 32579401, 50674944, 53>>>>,
      <<<<1, 16777216, 0, 52>>, <<1, 32649967, 253086182, 53>>, <<1, 29985335, 177895503, 53>>,
        <<1, 25704186, 47140921, 53>>, <<1, 20037317, 96235964, 53>>,
        <<1, 26580463, 40875632, 54>>, <<1, 23306663, 235631498, 55>>,
        <<0, 31216267, 87308935, 57>>, <<0, 19247039, 37250495, 54>>,
        <<0, 33554431, 268435453, 54>>, <<0, 23026448, 100243206, 53>>,
        <<0, 28034318, 256324775, 53>>, <<0, 31530852, 38939931, 53>>,
        <<0, 33327548, 250891508, 53>>, <<0, 33327548, 250891508, 53>>,
        <<0, 31530852, 38939933, 53>>, <<0, 28034318, 256324775, 53>>,
        <<0, 23026448, 100243207, 53>>, <<0, 16777216, 3, 53>>, <<0, 19247039, 37250501, 54>>,
        <<0, 31216267, 87308984, 57>>, <<1, 23306663, 235631518, 55>>,
        <<1, 26580463, 40875627, 54>>, <<1, 20037317, 96235962, 53>>,
        <<1, 25704186, 47140920, 53>>, <<1, 29985335, 177895503, 53>>,
        <<1, 32649967, 253086184, 53>>>>,
      <<<<1, 16777216, 0, 52>>, <<1, 32713152, 89713001, 53>>, <<1, 30231498, 164322417, 53>>,
        <<1, 26233911, 84270667, 53>>, <<1, 20920846, 42724817, 53>>,
        <<1, 29117444, 225553345, 54>>, <<1, 29866254, 50480514, 55>>, <<0, 0, 0, 0>>,
        <<0, 29866254, 50480514, 55>>, <<0, 29117444, 225553345, 54>>,
        <<0, 20920846, 42724817, 53>>, <<0, 26233911, 84270664, 53>>,
        <<0, 30231498, 164322417, 53>>, <<0, 32713152, 89713002, 53>>, <<0, 16777216, 0, 52>>,
        <<0, 32713152, 89713002, 53>>, <<0, 30231498, 164322417, 53>>,
        <<0, 26233911, 84270665, 53>>, <<0, 20920846, 42724818, 53>>,
        <<0, 29117444, 225553347, 54>>, <<0, 29866254, 50480518, 55>>,
        <<0, 18506339, 51665927, 105>>, <<1, 29866254, 50480479, 55>>,
        <<1, 29117444, 225553343, 54>>, <<1, 20920846, 42724816, 53>>,
        <<1, 26233911, 84270666, 53>>, <<1, 30231498, 164322420, 53>>,
        <<1, 32713152, 89713001, 53>>>>,
      <<<<1, 16777216, 0, 52>>, <<1, 32769948, 7080338, 53>>, <<1, 30453177, 189037775, 53>>,
        <<1, 26712450, 171501145, 53>>, <<1, 21722679, 18909793, 53>>,
        <<1, 31434358, 92173831, 54>>, <<1, 17953522, 237968953, 54>>,
        <<1, 29065605, 60918138, 57>>, <<0, 21714012, 2312819, 55>>,
        <<0, 24839551, 34337507, 54>>, <<0, 18830313, 60124607, 53>>,
        <<0, 24360366, 98258446, 53>>, <<0, 28751355, 228553302, 53>>,
        <<0, 31797963, 239454549, 53>>, <<0, 33357734, 129373776, 53>>,
        <<0, 33357734, 129373777, 53>>, <<0, 31797963, 239454548, 53>>,
        <<0, 28751355, 228553300, 53>>, <<0, 24360366, 98258449, 53>>,
        <<0, 18830313, 60124608, 53>>, <<0, 24839551, 34337509, 54>>,
        <<0, 21714012, 2312815, 55>>, <<1, 29065605, 60918024, 57>>,
        <<1, 17953522, 237968943, 54>>, <<1, 31434358, 92173836, 54>>,
        <<1, 21722679, 18909796, 53>>, <<1, 26712450, 171501148, 53>>,
        <<1, 30453177, 189037774, 53>>, <<1, 32769948, 7080338, 53>>>>,
      <<<<1, 16777216, 0, 52>>, <<1, 32821187, 41549951, 53>>, <<1, 30653498, 251625365, 53>>,
        <<1, 27146105, 194507944, 53>>, <<1, 22452297, 115477464, 53>>, <<1, 16777216, 0, 53>>,
        <<1, 20737779, 120580431, 54>>, <<1, 28059145, 188503910, 56>>,
        <<0, 28059145, 188503910, 56>>, <<0, 20737779, 120580431, 54>>,
        <<0, 33554431, 268435453, 54>>, <<0, 22452297, 115477462, 53>>,
        <<0, 27146105, 194507944, 53>>, <<0, 30653498, 251625366, 53>>,
        <<0, 32821187, 41549952, 53>>, <<0, 16777216, 0, 52>>, <<0, 32821187, 41549952, 53>>,
        <<0, 30653498, 251625365, 53>>, <<0, 27146105, 194507944, 53>>,
        <<0, 22452297, 115477465, 53>>, <<0, 16777216, 3, 53>>, <<0, 20737779, 120580433, 54>>,
        <<0, 28059145, 188503967, 56>>, <<1, 28059145, 188503886, 56>>,
        <<1, 20737779, 120580429, 54>>, <<1, 16777216, 1, 53>>, <<1, 22452297, 115477467, 53>>,
        <<1, 27146105, 194507943, 53>>, <<1, 30653498, 251625366, 53>>,
        <<1, 32821187, 41549952, 53>>>>,
      <<<<1, 16777216, 0, 52>>, <<1, 32867570, 216284036, 53>>, <<1, 30835107, 107610362, 53>>,
        <<1, 27540251, 20421375, 53>>, <<1, 23117893, 170825513, 53>>,
        <<1, 17749086, 245608606, 53>>, <<1, 23307260, 262972433, 54>>,
        <<1, 20324292, 67848078, 55>>, <<0, 27192065, 125220220, 57>>,
        <<0, 16821006, 187530643, 54>>, <<0, 29554351, 59935377, 54>>,
        <<0, 20538868, 152522001, 53>>, <<0, 25459697, 223430349, 53>>,
        <<0, 29338204, 20361764, 53>>, <<0, 32015600, 214052044, 53>>,
        <<0, 33382275, 16277752, 53>>, <<0, 33382275, 16277753, 53>>,
        <<0, 32015600, 214052043, 53>>, <<0, 29338204, 20361765, 53>>,
        <<0, 25459697, 223430349, 53>>, <<0, 20538868, 152522002, 53>>,
        <<0, 29554351, 59935372, 54>>, <<0, 16821006, 187530657, 54>>,
        <<0, 27192065, 125220333, 57>>, <<1, 20324292, 67848081, 55>>,
        <<1, 23307260, 262972435, 54>>, <<1, 17749086, 245608607, 53>>,
        <<1, 23117893, 170825513, 53>>, <<1, 27540251, 20421375, 53>>,
        <<1, 30835107, 107610362, 53>>, <<1, 32867570, 216284034, 53>>>>,
      <<<<1, 16777216, 0, 52>>, <<1, 32909692, 267869360, 53>>, <<1, 31000252, 254971206, 53>>,
        <<1, 27899490, 151953827, 53>>, <<1, 23726566, 109001676, 53>>,
        <<1, 18641843, 162425032, 53>>, <<1, 25681450, 112109923, 54>>,
        <<1, 26184579, 208250378, 55>>, <<0, 0, 0, 0>>, <<0, 26184579, 208250378, 55>>,
        <<0, 25681450, 112109923, 54>>, <<0, 18641843, 162425031, 53>>,
        <<0, 23726566, 109001676, 53>>, <<0, 27899490, 151953828, 53>>,
        <<0, 31000252, 254971206, 53>>, <<0, 32909692, 267869360, 53>>, <<0, 16777216, 0, 52>>,
        <<0, 32909692, 267869360, 53>>, <<0, 31000252, 254971206, 53>>,
        <<0, 27899490, 151953829, 53>>, <<0, 23726566, 109001677, 53>>,
        <<0, 18641843, 162425032, 53>>, <<0, 25681450, 112109932, 54>>,
        <<0, 26184579, 208250391, 55>>, <<0, 18506339, 51665927, 105>>,
        <<1, 26184579, 208250382, 55>>, <<1, 25681450, 112109928, 54>>,
        <<1, 18641843, 162425030, 53>>, <<1, 23726566, 109001676, 53>>,
        <<1, 27899490, 151953827, 53>>, <<1, 31000252, 254971204, 53>>,
        <<1, 32909692, 267869359, 53>>>>,
      <<<<1, 16777216, 0, 52>>, <<1, 32948059, 188213541, 53>>, <<1, 31150858, 182366556, 53>>,
        <<1, 28227784, 124055737, 53>>, <<1, 24284484, 152385973, 53>>,
        <<1, 19463480, 34450179, 53>>, <<1, 27878029, 164041397, 54>>,
        <<1, 31643028, 182475402, 55>>, <<1, 25545346, 145760394, 57>>,
        <<0, 19101174, 68109528, 55>>, <<0, 21949159, 125903166, 54>>,
        <<0, 33554431, 268435453, 54>>, <<0, 21973479, 259479687, 53>>,
        <<0, 26375565, 31121447, 53>>, <<0, 29824368, 166720194, 53>>,
        <<0, 32195241, 198004822, 53>>, <<0, 33402494, 250688606, 53>>,
        <<0, 33402494, 250688606, 53>>, <<0, 32195241, 198004824, 53>>,
        <<0, 29824368, 166720196, 53>>, <<0, 26375565, 31121445, 53>>,
        <<0, 21973479, 259479685, 53>>, <<0, 16777216, 3, 53>>, <<0, 21949159, 125903168, 54>>,
        <<0, 19101174, 68109532, 55>>, <<1, 25545346, 145760409, 57>>,
        <<1, 31643028, 182475414, 55>>, <<1, 27878029, 164041392, 54>>,
        <<1, 19463480, 34450178, 53>>, <<1, 24284484, 152385973, 53>>,
        <<1, 28227784, 124055734, 53>>, <<1, 31150858, 182366555, 53>>,
        <<1, 32948059, 188213540, 53>>>>,
      <<<<1, 16777216, 0, 52>>, <<1, 32983104, 8367859, 53>>, <<1, 31288576, 3606929, 53>>,
        <<1, 28528553, 17736633, 53>>, <<1, 24797024, 123553924, 53>>,
        <<1, 20221062, 248902074, 53>>, <<1, 29912994, 187204557, 54>>,
        <<1, 18365212, 102698242, 54>>, <<1, 24768099, 39434074, 56>>,
        <<0, 24768099, 39434074, 56>>, <<0, 18365212, 102698242, 54>>,
        <<0, 29912994, 187204550, 54>>, <<0, 20221062, 248902074, 53>>,
        <<0, 24797024, 123553926, 53>>, <<0, 28528553, 17736632, 53>>,
        <<0, 31288576, 3606928, 53>>, <<0, 32983104, 8367859, 53>>, <<0, 16777216, 0, 52>>,
        <<0, 32983104, 8367859, 53>>, <<0, 31288576, 3606930, 53>>,
        <<0, 28528553, 17736633, 53>>, <<0, 24797024, 123553924, 53>>,
        <<0, 20221062, 248902082, 53>>, <<0, 29912994, 187204567, 54>>,
        <<0, 18365212, 102698244, 54>>, <<0, 24768099, 39434067, 56>>,
        <<1, 24768099, 39434113, 56>>, <<1, 18365212, 102698240, 54>>,
        <<1, 29912994, 187204548, 54>>, <<1, 20221062, 248902073, 53>>,
        <<1, 24797024, 123553920, 53>>, <<1, 28528553, 17736632, 53>>,
        <<1, 31288576, 3606929, 53>>, <<1, 32983104, 8367860, 53>>>>,
      <<<<1, 16777216, 0, 52>>, <<1, 33015198, 127082900, 53>>, <<1, 31414829, 81311746, 53>>,
        <<1, 28804761, 179958016, 53>>, <<1, 25268885, 79767870, 53>>,
        <<1, 20920846, 42724817, 53>>, <<1, 31800787, 167439936, 54>>,
        <<1, 20737779, 120580431, 54>>, <<1, 18016483, 257715695, 55>>,
        <<0, 24086622, 103886193, 57>>, <<0, 29866254, 50480514, 55>>,
        <<0, 26375463, 106799419, 54>>, <<0, 18485035, 81373480, 53>>,
        <<0, 23188214, 178018239, 53>>, <<0, 27146105, 194507944, 53>>,
        <<0, 30231498, 164322417, 53>>, <<0, 32345226, 69724628, 53>>,
        <<0, 33419351, 193706047, 53>>, <<0, 33419351, 193706047, 53>>,
        <<0, 32345226, 69724629, 53>>, <<0, 30231498, 164322417, 53>>,
        <<0, 27146105, 194507944, 53>>, <<0, 23188214, 178018243, 53>>,
        <<0, 18485035, 81373481, 53>>, <<0, 26375463, 106799425, 54>>,
        <<0, 29866254, 50480518, 55>>, <<0, 24086622, 103886211, 57>>,
        <<1, 18016483, 257715691, 55>>, <<1, 20737779, 120580429, 54>>,
        <<1, 31800787, 167439934, 54>>, <<1, 20920846, 42724816, 53>>,
        <<1, 25268885, 79767870, 53>>, <<1, 28804761, 179958015, 53>>,
        <<1, 31414829, 81311746, 53>>, <<1, 33015198, 127082900, 53>>>>,
      <<<<1, 16777216, 0, 52>>, <<1, 33044664, 209787927, 53>>, <<1, 31530852, 38939931, 53>>,
        <<1, 29058990, 140004523, 53>>, <<1, 25704186, 47140921, 53>>,
        <<1, 21568373, 37492252, 53>>, <<1, 16777216, 0, 53>>, <<1, 22952583, 76155894, 54>>,
        <<1, 23306663, 235631498, 55>>, <<0, 0, 0, 0>>, <<0, 23306663, 235631498, 55>>,
        <<0, 22952583, 76155890, 54>>, <<0, 33554431, 268435453, 54>>,
        <<0, 21568373, 37492253, 53>>, <<0, 25704186, 47140920, 53>>,
        <<0, 29058990, 140004521, 53>>, <<0, 31530852, 38939931, 53>>,
        <<0, 33044664, 209787928, 53>>, <<0, 16777216, 0, 52>>, <<0, 33044664, 209787928, 53>>,
        <<0, 31530852, 38939932, 53>>, <<0, 29058990, 140004521, 53>>,
        <<0, 25704186, 47140924, 53>>, <<0, 21568373, 37492254, 53>>, <<0, 16777216, 3, 53>>,
        <<0, 22952583, 76155889, 54>>, <<0, 23306663, 235631495, 55>>,
        <<0, 18506339, 51665927, 105>>, <<1, 23306663, 235631486, 55>>,
        <<1, 22952583, 76155899, 54>>, <<1, 33554431, 268435445, 54>>,
        <<1, 21568373, 37492252, 53>>, <<1, 25704186, 47140920, 53>>,
        <<1, 29058990, 140004524, 53>>, <<1, 31530852, 38939932, 53>>,
        <<1, 33044664, 209787927, 53>>>>,
      <<<<1, 16777216, 0, 52>>, <<1, 33071782, 11242152, 53>>, <<1, 31637717, 34375216, 53>>,
        <<1, 29293492, 186591470, 53>>, <<1, 26106547, 217928462, 53>>,
        <<1, 22168565, 21504712, 53>>, <<1, 17592833, 25025122, 53>>,
        <<1, 25021974, 176866149, 54>>, <<1, 28276892, 256496778, 55>>,
        <<1, 22785447, 125169710, 57>>, <<0, 17048043, 48839042, 55>>,
        <<0, 19651003, 143264301, 54>>, <<0, 30212661, 237098288, 54>>,
        <<0, 19952578, 128646672, 53>>, <<0, 24224826, 177592254, 53>>,
        <<0, 27800170, 184387335, 53>>, <<0, 30575754, 111988951, 53>>,
        <<0, 32471729, 97184291, 53>>, <<0, 33433551, 207841785, 53>>,
        <<0, 33433551, 207841785, 53>>, <<0, 32471729, 97184291, 53>>,
        <<0, 30575754, 111988951, 53>>, <<0, 27800170, 184387338, 53>>,
        <<0, 24224826, 177592255, 53>>, <<0, 19952578, 128646670, 53>>,
        <<0, 30212661, 237098290, 54>>, <<0, 19651003, 143264303, 54>>,
        <<0, 17048043, 48839054, 55>>, <<1, 22785447, 125169692, 57>>,
        <<1, 28276892, 256496790, 55>>, <<1, 25021974, 176866147, 54>>,
        <<1, 17592833, 25025118, 53>>, <<1, 22168565, 21504711, 53>>,
        <<1, 26106547, 217928462, 53>>, <<1, 29293492, 186591472, 53>>,
        <<1, 31637717, 34375216, 53>>, <<1, 33071782, 11242151, 53>>>>,
      <<<<1, 16777216, 0, 52>>, <<1, 33096793, 75821746, 53>>, <<1, 31736360, 86186977, 53>>,
        <<1, 29510242, 48491000, 53>>, <<1, 26479161, 150588707, 53>>,
        <<1, 22725798, 118103295, 53>>, <<1, 18352534, 209176777, 53>>,
        <<1, 26957323, 167089898, 54>>, <<1, 32948504, 91539519, 55>>,
        <<1, 22167224, 69268982, 56>>, <<0, 22167224, 69268982, 56>>,
        <<0, 32948504, 91539511, 55>>, <<0, 26957323, 167089898, 54>>,
        <<0, 18352534, 209176780, 53>>, <<0, 22725798, 118103294, 53>>,
        <<0, 26479161, 150588707, 53>>, <<0, 29510242, 48491000, 53>>,
        <<0, 31736360, 86186978, 53>>, <<0, 33096793, 75821746, 53>>, <<0, 16777216, 0, 52>>,
        <<0, 33096793, 75821747, 53>>, <<0, 31736360, 86186977, 53>>,
        <<0, 29510242, 48491003, 53>>, <<0, 26479161, 150588710, 53>>,
        <<0, 22725798, 118103295, 53>>, <<0, 18352534, 209176777, 53>>,
        <<0, 26957323, 167089889, 54>>, <<0, 32948504, 91539515, 55>>,
        <<0, 22167224, 69269006, 56>>, <<1, 22167224, 69268989, 56>>,
        <<1, 32948504, 91539507, 55>>, <<1, 26957323, 167089885, 54>>,
        <<1, 18352534, 209176775, 53>>, <<1, 22725798, 118103296, 53>>,
        <<1, 26479161, 150588711, 53>>, <<1, 29510242, 48490998, 53>>,
        <<1, 31736360, 86186977, 53>>, <<1, 33096793, 75821747, 53>>>>,
      <<<<1, 16777216, 0, 52>>, <<1, 33119910, 246495149, 53>>, <<1, 31827601, 145179946, 53>>,
        <<1, 29710974, 475369, 53>>, <<1, 26824847, 226160863, 53>>,
        <<1, 23243972, 57601367, 53>>, <<1, 19061089, 245829913, 53>>,
        <<1, 28769070, 215019273, 54>>, <<1, 18670857, 254582611, 54>>,
        <<1, 32356318, 195706577, 56>>, <<0, 21617611, 265503901, 57>>,
        <<0, 26846994, 43015276, 55>>, <<0, 23797131, 37117343, 54>>, <<0, 16777216, 2, 53>>,
        <<0, 21221345, 93718749, 53>>, <<0, 25115853, 208394, 53>>,
        <<0, 28359873, 67767455, 53>>, <<0, 30869387, 183515322, 53>>,
        <<0, 32579401, 50674944, 53>>, <<0, 33445625, 84904093, 53>>,
        <<0, 33445625, 84904093, 53>>, <<0, 32579401, 50674944, 53>>,
        <<0, 30869387, 183515324, 53>>, <<0, 28359873, 67767457, 53>>,
        <<0, 25115853, 208398, 53>>, <<0, 21221345, 93718746, 53>>,
        <<0, 33554431, 268435448, 54>>, <<0, 23797131, 37117349, 54>>,
        <<0, 26846994, 43015288, 55>>, <<0, 21617611, 265503887, 57>>,
        <<1, 32356318, 195706536, 56>>, <<1, 18670857, 254582601, 54>>,
        <<1, 28769070, 215019267, 54>>, <<1, 19061089, 245829911, 53>>,
        <<1, 23243972, 57601367, 53>>, <<1, 26824847, 226160863, 53>>,
        <<1, 29710974, 475370, 53>>, <<1, 31827601, 145179947, 53>>,
        <<1, 33119910, 246495149, 53>>>>,
      <<<<1, 16777216, 0, 52>>, <<1, 33141321, 70247516, 53>>, <<1, 31912161, 54809855, 53>>,
        <<1, 29897217, 222112876, 53>>, <<1, 27146105, 194507944, 53>>,
        <<1, 23726566, 109001676, 53>>, <<1, 19722800, 74799710, 53>>,
        <<1, 30466786, 189062656, 54>>, <<1, 20737779, 120580431, 54>>,
        <<1, 20996278, 128471925, 55>>, <<0, 0, 0, 0>>, <<0, 20996278, 128471917, 55>>,
        <<0, 20737779, 120580431, 54>>, <<0, 30466786, 189062656, 54>>,
        <<0, 19722800, 74799710, 53>>, <<0, 23726566, 109001676, 53>>,
        <<0, 27146105, 194507944, 53>>, <<0, 29897217, 222112876, 53>>,
        <<0, 31912161, 54809855, 53>>, <<0, 33141321, 70247516, 53>>, <<0, 16777216, 0, 52>>,
        <<0, 33141321, 70247516, 53>>, <<0, 31912161, 54809857, 53>>,
        <<0, 29897217, 222112877, 53>>, <<0, 27146105, 194507944, 53>>,
        <<0, 23726566, 109001677, 53>>, <<0, 19722800, 74799711, 53>>,
        <<0, 30466786, 189062658, 54>>, <<0, 20737779, 120580433, 54>>,
        <<0, 20996278, 128471929, 55>>, <<0, 18506339, 51665927, 105>>,
        <<1, 20996278, 128471920, 55>>, <<1, 20737779, 120580429, 54>>,
        <<1, 30466786, 189062655, 54>>, <<1, 19722800, 74799709, 53>>,
        <<1, 23726566, 109001676, 53>>, <<1, 27146105, 194507943, 53>>,
        <<1, 29897217, 222112876, 53>>, <<1, 31912161, 54809855, 53>>,
        <<1, 33141321, 70247515, 53>>>>,
      <<<<1, 16777216, 0, 52>>, <<1, 33161188, 74267739, 53>>, <<1, 31990674, 109052577, 53>>,
        <<1, 30070326, 64905510, 53>>, <<1, 27445155, 31313075, 53>>,
        <<1, 24176692, 219314249, 53>>, <<1, 20341549, 88302410, 53>>,
        <<1, 32059234, 88756609, 54>>, <<1, 22683928, 194030715, 54>>,
        <<1, 25553862, 27778174, 55>>, <<1, 20563623, 152541790, 57>>,
        <<0, 30785097, 159037687, 56>>, <<0, 17782607, 159298046, 54>>,
        <<0, 27452131, 144578477, 54>>, <<0, 18239100, 105742786, 53>>,
        <<0, 22324625, 258787308, 53>>, <<0, 25886881, 59880209, 53>>,
        <<0, 28842369, 248817862, 53>>, <<0, 31121817, 248393678, 53>>,
        <<0, 32671796, 238697669, 53>>, <<0, 33455976, 167864861, 53>>,
        <<0, 33455976, 167864861, 53>>, <<0, 32671796, 238697671, 53>>,
        <<0, 31121817, 248393679, 53>>, <<0, 28842369, 248817863, 53>>,
        <<0, 25886881, 59880207, 53>>, <<0, 22324625, 258787309, 53>>,
        <<0, 18239100, 105742790, 53>>, <<0, 27452131, 144578479, 54>>,
        <<0, 17782607, 159298044, 54>>, <<0, 30785097, 159037727, 56>>,
        <<1, 20563623, 152541772, 57>>, <<1, 25553862, 27778186, 55>>,
        <<1, 22683928, 194030713, 54>>, <<1, 32059234, 88756611, 54>>,
        <<1, 20341549, 88302406, 53>>, <<1, 24176692, 219314248, 53>>,
        <<1, 27445155, 31313077, 53>>, <<1, 30070326, 64905509, 53>>,
        <<1, 31990674, 109052577, 53>>, <<1, 33161188, 74267738, 53>>>>,
      <<<<1, 16777216, 0, 52>>, <<1, 33179656, 192756761, 53>>, <<1, 32063702, 196709573, 53>>,
        <<1, 30231498, 164322417, 53>>, <<1, 27723972, 206305907, 53>>,
        <<1, 24597139, 49871717, 53>>, <<1, 20920846, 42724817, 53>>, <<1, 16777216, 0, 53>>,
        <<1, 24517621, 31628430, 54>>, <<1, 29866254, 50480514, 55>>,
        <<1, 20060206, 201002990, 56>>, <<0, 20060206, 201002974, 56>>,
        <<0, 29866254, 50480514, 55>>, <<0, 24517621, 31628434, 54>>,
        <<0, 33554431, 268435453, 54>>, <<0, 20920846, 42724817, 53>>,
        <<0, 24597139, 49871718, 53>>, <<0, 27723972, 206305909, 53>>,
        <<0, 30231498, 164322417, 53>>, <<0, 32063702, 196709573, 53>>,
        <<0, 33179656, 192756761, 53>>, <<0, 16777216, 0, 52>>, <<0, 33179656, 192756762, 53>>,
        <<0, 32063702, 196709574, 53>>, <<0, 30231498, 164322417, 53>>,
        <<0, 27723972, 206305907, 53>>, <<0, 24597139, 49871716, 53>>,
        <<0, 20920846, 42724818, 53>>, <<0, 16777216, 3, 53>>, <<0, 24517621, 31628428, 54>>,
        <<0, 29866254, 50480518, 55>>, <<0, 20060206, 201003015, 56>>,
        <<1, 20060206, 201002997, 56>>, <<1, 29866254, 50480510, 55>>,
        <<1, 24517621, 31628439, 54>>, <<1, 33554431, 268435445, 54>>,
        <<1, 20920846, 42724816, 53>>, <<1, 24597139, 49871720, 53>>,
        <<1, 27723972, 206305904, 53>>, <<1, 30231498, 164322416, 53>>,
        <<1, 32063702, 196709572, 53>>, <<1, 33179656, 192756760, 53>>>>,
      <<<<1, 16777216, 0, 52>>, <<1, 33196854, 206353651, 53>>, <<1, 32131744, 57119257, 53>>,
        <<1, 30381801, 84418559, 53>>, <<1, 27984323, 18397034, 53>>,
        <<1, 24990407, 150691022, 53>>, <<1, 21463864, 242701180, 53>>,
        <<1, 17479857, 61997612, 53>>, <<1, 26246593, 133447825, 54>>,
        <<1, 16974071, 257693552, 54>>, <<1, 29359110, 52126341, 56>>,
        <<0, 19607611, 222009593, 57>>, <<0, 24378885, 123355361, 55>>,
        <<0, 21668137, 46190212, 54>>, <<0, 30685012, 238825688, 54>>,
        <<0, 19523945, 111584074, 53>>, <<0, 23289265, 103746408, 53>>,
        <<0, 26558215, 26639049, 53>>, <<0, 29261122, 151988596, 53>>,
        <<0, 31340380, 1978608, 53>>, <<0, 32751671, 177245430, 53>>,
        <<0, 33464918, 78810866, 53>>, <<0, 33464918, 78810867, 53>>,
        <<0, 32751671, 177245432, 53>>, <<0, 31340380, 1978608, 53>>,
        <<0, 29261122, 151988594, 53>>, <<0, 26558215, 26639047, 53>>,
        <<0, 23289265, 103746409, 53>>, <<0, 19523945, 111584074, 53>>,
        <<0, 30685012, 238825690, 54>>, <<0, 21668137, 46190214, 54>>,
        <<0, 24378885, 123355382, 55>>, <<0, 19607611, 222009611, 57>>,
        <<1, 29359110, 52126332, 56>>, <<1, 16974071, 257693550, 54>>,
        <<1, 26246593, 133447819, 54>>, <<1, 17479857, 61997614, 53>>,
        <<1, 21463864, 242701181, 53>>, <<1, 24990407, 150691021, 53>>,
        <<1, 27984323, 18397033, 53>>, <<1, 30381801, 84418557, 53>>,
        <<1, 32131744, 57119255, 53>>, <<1, 33196854, 206353652, 53>>>>,
      <<<<1, 16777216, 0, 52>>, <<1, 33212896, 70796015, 53>>, <<1, 32195241, 198004823, 53>>,
        <<1, 30522184, 250489875, 53>>, <<1, 28227784, 124055737, 53>>,
        <<1, 25358747, 188360865, 53>>, <<1, 21973479, 259479687, 53>>,
        <<1, 18140895, 146495499, 53>>, <<1, 27878029, 164041397, 54>>,
        <<1, 18906751, 225873344, 54>>, <<1, 19101174, 68109528, 55>>, <<1, 16777216, 0, 104>>,
        <<0, 19101174, 68109528, 55>>, <<0, 18906751, 225873344, 54>>,
        <<0, 27878029, 164041397, 54>>, <<0, 18140895, 146495497, 53>>,
        <<0, 21973479, 259479687, 53>>, <<0, 25358747, 188360865, 53>>,
        <<0, 28227784, 124055737, 53>>, <<0, 30522184, 250489874, 53>>,
        <<0, 32195241, 198004823, 53>>, <<0, 33212896, 70796015, 53>>, <<0, 16777216, 0, 52>>,
        <<0, 33212896, 70796016, 53>>, <<0, 32195241, 198004824, 53>>,
        <<0, 30522184, 250489875, 53>>, <<0, 28227784, 124055737, 53>>,
        <<0, 25358747, 188360865, 53>>, <<0, 21973479, 259479688, 53>>,
        <<0, 18140895, 146495498, 53>>, <<0, 27878029, 164041410, 54>>,
        <<0, 18906751, 225873343, 54>>, <<0, 19101174, 68109532, 55>>,
        <<0, 18506339, 51665927, 105>>, <<1, 19101174, 68109523, 55>>,
        <<1, 18906751, 225873338, 54>>, <<1, 27878029, 164041392, 54>>,
        <<1, 18140895, 146495502, 53>>, <<1, 21973479, 259479683, 53>>,
        <<1, 25358747, 188360861, 53>>, <<1, 28227784, 124055738, 53>>,
        <<1, 30522184, 250489872, 53>>, <<1, 32195241, 198004823, 53>>,
        <<1, 33212896, 70796015, 53>>>>,
      <<<<1, 16777216, 0, 52>>, <<1, 33227882, 154178682, 53>>, <<1, 32254590, 56523648, 53>>,
        <<1, 30653498, 251625365, 53>>, <<1, 28455772, 47032645, 53>>,
        <<1, 25704186, 47140921, 53>>, <<1, 22452297, 115477464, 53>>,
        <<1, 18763400, 68287762, 53>>, <<1, 29418589, 180225480, 54>>,
        <<1, 20737779, 120580431, 54>>, <<1, 23306663, 235631498, 55>>,
        <<1, 18736524, 167238702, 57>>, <<0, 28059145, 188503910, 56>>,
        <<0, 32470207, 48544033, 55>>, <<0, 25139422, 249927299, 54>>,
        <<0, 33554431, 268435453, 54>>, <<0, 20658171, 29215033, 53>>,
        <<0, 24137038, 111496506, 53>>, <<0, 27146105, 194507944, 53>>,
        <<0, 29626804, 258811654, 53>>, <<0, 31530852, 38939931, 53>>,
        <<0, 32821187, 41549952, 53>>, <<0, 33472695, 24182774, 53>>,
        <<0, 33472695, 24182775, 53>>, <<0, 32821187, 41549952, 53>>,
        <<0, 31530852, 38939932, 53>>, <<0, 29626804, 258811655, 53>>,
        <<0, 27146105, 194507944, 53>>, <<0, 24137038, 111496504, 53>>,
        <<0, 20658171, 29215031, 53>>, <<0, 16777216, 3, 53>>, <<0, 25139422, 249927301, 54>>,
        <<0, 32470207, 48544029, 55>>, <<0, 28059145, 188503903, 56>>,
        <<1, 18736524, 167238749, 57>>, <<1, 23306663, 235631486, 55>>,
        <<1, 20737779, 120580429, 54>>, <<1, 29418589, 180225481, 54>>,
        <<1, 18763400, 68287758, 53>>, <<1, 22452297, 115477461, 53>>,
        <<1, 25704186, 47140920, 53>>, <<1, 28455772, 47032641, 53>>,
        <<1, 30653498, 251625366, 53>>, <<1, 32254590, 56523646, 53>>,
        <<1, 33227882, 154178681, 53>>>>,
      <<<<1, 16777216, 0, 52>>, <<1, 33241904, 56272589, 53>>, <<1, 32310142, 171781564, 53>>,
        <<1, 30776504, 66034107, 53>>, <<1, 28669557, 217254382, 53>>,
        <<1, 26028551, 202822767, 53>>, <<1, 22902683, 8191735, 53>>,
        <<1, 19350180, 175594746, 53>>, <<1, 30874442, 12953288, 54>>,
        <<1, 22473390, 93833079, 54>>, <<1, 27307403, 220080255, 55>>,
        <<1, 18318683, 93975495, 56>>, <<0, 18318683, 93975479, 56>>,
        <<0, 27307403, 220080263, 55>>, <<0, 22473390, 93833079, 54>>,
        <<0, 30874442, 12953288, 54>>, <<0, 19350180, 175594746, 53>>,
        <<0, 22902683, 8191737, 53>>, <<0, 26028551, 202822766, 53>>,
        <<0, 28669557, 217254381, 53>>, <<0, 30776504, 66034108, 53>>,
        <<0, 32310142, 171781564, 53>>, <<0, 33241904, 56272588, 53>>, <<0, 16777216, 0, 52>>,
        <<0, 33241904, 56272589, 53>>, <<0, 32310142, 171781563, 53>>,
        <<0, 30776504, 66034107, 53>>, <<0, 28669557, 217254383, 53>>,
        <<0, 26028551, 202822767, 53>>, <<0, 22902683, 8191735, 53>>,
        <<0, 19350180, 175594747, 53>>, <<0, 30874442, 12953297, 54>>,
        <<0, 22473390, 93833081, 54>>, <<0, 27307403, 220080252, 55>>,
        <<0, 18318683, 93975440, 56>>, <<1, 18318683, 93975486, 56>>,
        <<1, 27307403, 220080243, 55>>, <<1, 22473390, 93833077, 54>>,
        <<1, 30874442, 12953279, 54>>, <<1, 19350180, 175594745, 53>>,
        <<1, 22902683, 8191736, 53>>, <<1, 26028551, 202822765, 53>>,
        <<1, 28669557, 217254382, 53>>, <<1, 30776504, 66034106, 53>>,
        <<1, 32310142, 171781561, 53>>, <<1, 33241904, 56272589, 53>>>>,
      <<<<1, 16777216, 0, 52>>, <<1, 33255042, 49129157, 53>>, <<1, 32362215, 94075400, 53>>,
        <<1, 30891884, 4910204, 53>>, <<1, 28870286, 76229484, 53>>,
        <<1, 26333497, 162933512, 53>>, <<1, 23326787, 11092747, 53>>,
        <<1, 19903809, 109601796, 53>>, <<1, 32251295, 174403712, 54>>,
        <<1, 24119447, 93387497, 54>>, <<1, 31114373, 234485417, 55>>,
        <<1, 26869232, 167705113, 56>>, <<0, 17939529, 48471198, 57>>,
        <<0, 22324348, 19288190, 55>>, <<0, 19882717, 178288120, 54>>,
        <<0, 28248453, 194528582, 54>>, <<0, 18055047, 195855978, 53>>,
        <<0, 21663675, 226139673, 53>>, <<0, 24885715, 39358331, 53>>,
        <<0, 27663668, 73675195, 53>>, <<0, 29947962, 157458747, 53>>,
        <<0, 31697834, 213905393, 53>>, <<0, 32882058, 105831808, 53>>,
        <<0, 33479500, 236387711, 53>>, <<0, 33479500, 236387711, 53>>,
        <<0, 32882058, 105831809, 53>>, <<0, 31697834, 213905392, 53>>,
        <<0, 29947962, 157458749, 53>>, <<0, 27663668, 73675198, 53>>,
        <<0, 24885715, 39358329, 53>>, <<0, 21663675, 226139674, 53>>,
        <<0, 18055047, 195855979, 53>>, <<0, 28248453, 194528584, 54>>,
        <<0, 19882717, 178288122, 54>>, <<0, 22324348, 19288187, 55>>,
        <<0, 17939529, 48471184, 57>>, <<1, 26869232, 167705120, 56>>,
        <<1, 31114373, 234485420, 55>>, <<1, 24119447, 93387488, 54>>,
        <<1, 32251295, 174403703, 54>>, <<1, 19903809, 109601792, 53>>,
        <<1, 23326787, 11092744, 53>>, <<1, 26333497, 162933514, 53>>,
        <<1, 28870286, 76229482, 53>>, <<1, 30891884, 4910203, 53>>,
        <<1, 32362215, 94075399, 53>>, <<1, 33255042, 49129157, 53>>>>,
      <<<<1, 16777216, 0, 52>>, <<1, 33267369, 49047707, 53>>, <<1, 32411092, 122208021, 53>>,
        <<1, 31000252, 254971206, 53>>, <<1, 29058990, 140004523, 53>>,
        <<1, 26620520, 190260370, 53>>, <<1, 23726566, 109001676, 53>>,
        <<1, 20426643, 261428202, 53>>, <<1, 16777216, 0, 53>>, <<1, 25681450, 112109923, 54>>,
        <<1, 17369052, 26412687, 54>>, <<1, 17518928, 258843347, 55>>, <<0, 0, 0, 0>>,
        <<0, 17518928, 258843347, 55>>, <<0, 17369052, 26412687, 54>>,
        <<0, 25681450, 112109919, 54>>, <<0, 33554431, 268435453, 54>>,
        <<0, 20426643, 261428203, 53>>, <<0, 23726566, 109001676, 53>>,
        <<0, 26620520, 190260369, 53>>, <<0, 29058990, 140004523, 53>>,
        <<0, 31000252, 254971206, 53>>, <<0, 32411092, 122208020, 53>>,
        <<0, 33267369, 49047707, 53>>, <<0, 16777216, 0, 52>>, <<0, 33267369, 49047707, 53>>,
        <<0, 32411092, 122208021, 53>>, <<0, 31000252, 254971206, 53>>,
        <<0, 29058990, 140004523, 53>>, <<0, 26620520, 190260370, 53>>,
        <<0, 23726566, 109001680, 53>>, <<0, 20426643, 261428204, 53>>, <<0, 16777216, 3, 53>>,
        <<0, 25681450, 112109917, 54>>, <<0, 17369052, 26412685, 54>>,
        <<0, 17518928, 258843344, 55>>, <<0, 18506339, 51665927, 105>>,
        <<1, 17518928, 258843335, 55>>, <<1, 17369052, 26412681, 54>>,
        <<1, 25681450, 112109913, 54>>, <<1, 16777216, 1, 53>>, <<1, 20426643, 261428196, 53>>,
        <<1, 23726566, 109001676, 53>>, <<1, 26620520, 190260368, 53>>,
        <<1, 29058990, 140004520, 53>>, <<1, 31000252, 254971207, 53>>,
        <<1, 32411092, 122208019, 53>>, <<1, 33267369, 49047707, 53>>>>,
      <<<<1, 16777216, 0, 52>>, <<1, 33278950, 154917101, 53>>, <<1, 32457029, 189459712, 53>>,
        <<1, 31102165, 81611784, 53>>, <<1, 29236604, 55790655, 53>>,
        <<1, 26890978, 235912370, 53>>, <<1, 24103804, 112769304, 53>>,
        <<1, 20920846, 42724817, 53>>, <<1, 17394368, 49038022, 53>>,
        <<1, 27164550, 86722384, 54>>, <<1, 19094323, 30996288, 54>>,
        <<1, 21421135, 80643024, 55>>, <<1, 17207559, 183055079, 57>>,
        <<0, 25775984, 200260469, 56>>, <<0, 29866254, 50480514, 55>>,
        <<0, 23177056, 125496831, 54>>, <<0, 31040419, 57596782, 54>>,
        <<0, 19197049, 152507970, 53>>, <<0, 22558674, 135778095, 53>>,
        <<0, 25549886, 169589990, 53>>, <<0, 28121570, 87403158, 53>>,
        <<0, 30231498, 164322417, 53>>, <<0, 31845026, 141540293, 53>>,
        <<0, 32935659, 265008616, 53>>, <<0, 33485490, 220319596, 53>>,
        <<0, 33485490, 220319596, 53>>, <<0, 32935659, 265008616, 53>>,
        <<0, 31845026, 141540294, 53>>, <<0, 30231498, 164322417, 53>>,
        <<0, 28121570, 87403158, 53>>, <<0, 25549886, 169589993, 53>>,
        <<0, 22558674, 135778096, 53>>, <<0, 19197049, 152507970, 53>>,
        <<0, 31040419, 57596784, 54>>, <<0, 23177056, 125496826, 54>>,
        <<0, 29866254, 50480518, 55>>, <<0, 25775984, 200260446, 56>>,
        <<1, 17207559, 183055029, 57>>, <<1, 21421135, 80642988, 55>>,
        <<1, 19094323, 30996282, 54>>, <<1, 27164550, 86722385, 54>>,
        <<1, 17394368, 49038018, 53>>, <<1, 20920846, 42724816, 53>>,
        <<1, 24103804, 112769300, 53>>, <<1, 26890978, 235912364, 53>>,
        <<1, 29236604, 55790656, 53>>, <<1, 31102165, 81611783, 53>>,
        <<1, 32457029, 189459712, 53>>, <<1, 33278950, 154917100, 53>>>>,
      <<<<1, 16777216, 0, 52>>, <<1, 33289845, 75553027, 53>>, <<1, 32500257, 219160288, 53>>,
        <<1, 31198121, 233790180, 53>>, <<1, 29403972, 243384409, 53>>,
        <<1, 27146105, 194507944, 53>>, <<1, 24460128, 64141334, 53>>,
        <<1, 21388399, 246743483, 53>>, <<1, 17979363, 202910544, 53>>,
        <<1, 28573564, 153452955, 54>>, <<1, 20737779, 120580431, 54>>,
        <<1, 25149894, 84114042, 55>>, <<1, 16855201, 199267199, 56>>,
        <<0, 16855201, 199267199, 56>>, <<0, 25149894, 84114042, 55>>,
        <<0, 20737779, 120580427, 54>>, <<0, 28573564, 153452958, 54>>,
        <<0, 17979363, 202910547, 53>>, <<0, 21388399, 246743484, 53>>,
        <<0, 24460128, 64141332, 53>>, <<0, 27146105, 194507944, 53>>,
        <<0, 29403972, 243384410, 53>>, <<0, 31198121, 233790180, 53>>,
        <<0, 32500257, 219160287, 53>>, <<0, 33289845, 75553026, 53>>, <<0, 16777216, 0, 52>>,
        <<0, 33289845, 75553026, 53>>, <<0, 32500257, 219160289, 53>>,
        <<0, 31198121, 233790180, 53>>, <<0, 29403972, 243384408, 53>>,
        <<0, 27146105, 194507947, 53>>, <<0, 24460128, 64141336, 53>>,
        <<0, 21388399, 246743482, 53>>, <<0, 17979363, 202910541, 53>>,
        <<0, 28573564, 153452946, 54>>, <<0, 20737779, 120580433, 54>>,
        <<0, 25149894, 84114039, 55>>, <<0, 16855201, 199267176, 56>>,
        <<1, 16855201, 199267159, 56>>, <<1, 25149894, 84114030, 55>>,
        <<1, 20737779, 120580429, 54>>, <<1, 28573564, 153452942, 54>>,
        <<1, 17979363, 202910546, 53>>, <<1, 21388399, 246743480, 53>>,
        <<1, 24460128, 64141332, 53>>, <<1, 27146105, 194507943, 53>>,
        <<1, 29403972, 243384405, 53>>, <<1, 31198121, 233790181, 53>>,
        <<1, 32500257, 219160287, 53>>, <<1, 33289845, 75553026, 53>>>>>>

\* the float of a table entry
RadialFloat(t) ==
    IF t[2] = 0 /\ t[3] = 0 THEN DZero
    ELSE [neg |-> t[1] = 1,
          m |-> Limbs([i \in LimbIdx |-> IF i = 1 THEN t[3] % LimbBase
                                         ELSE IF i = 2 THEN t[3] \div LimbBase
                                         ELSE IF i = 3 THEN t[2] % LimbBase
                                         ELSE IF i = 4 THEN t[2] \div LimbBase
                                         ELSE 0]),
          e |-> 0 - t[4]]

\* radius and node size by the number of outer nodes
RadialRing(n, available) ==
    IF n <= 4 THEN [radius |-> available \div 3, node_w |-> 220, node_h |-> 130]
    ELSE IF n <= 6
    THEN [radius |-> DTrunc(DMul(DFromInt(available), DRatio(38, 100))),
          node_w |-> 200, node_h |-> 120]
    ELSE [radius |-> DTrunc(DMul(DFromInt(available), DRatio(42, 100))),
          node_w |-> 185, node_h |-> 110]

\* int(c + radius * unit)
RadialAt(c, radius, unit) == DTrunc(DAdd(DFromInt(c), DMul(DFromInt(radius), unit)))

\* the boxes of the outer nodes, clamped to the canvas
RadialOuter(outer_ids, cx, cy, radius, node_w, node_h, canvas_w, canvas_h, header_h) ==
    [i \in 1..Len(outer_ids) |->
        Box(Max(20, Min(RadialAt(cx, radius, RadialFloat(RadialCos[Len(outer_ids)][i]))
                            - node_w \div 2,
                        canvas_w - node_w - 20)),
            Max(header_h + 10,
                Min(RadialAt(cy, radius, RadialFloat(RadialSin[Len(outer_ids)][i]))
                        - node_h \div 2,
                    canvas_h - node_h - 20)),
            node_w, node_h)]

\* the centre box, then the outer boxes on the ring, its radius held under max_radius
RadialPlaced(center_id, outer_ids, cx, cy, ring, canvas_w, canvas_h, header_h) ==
    LET max_radius == Min((canvas_w - ring.node_w - 40) \div 2,
                          (canvas_h - header_h - ring.node_h - 40) \div 2)
    IN  Override([id \in {center_id} |-> Box(cx - 200 \div 2, cy - 120 \div 2, 200, 120)],
                 MapOf(outer_ids,
                       RadialOuter(outer_ids, cx, cy, Min(ring.radius, max_radius),
                                   ring.node_w, ring.node_h, canvas_w, canvas_h, header_h)))

layout_radial(center_id, outer_ids, canvas_w, canvas_h, header_h) ==
    LET cx == canvas_w \div 2
        cy == header_h + (canvas_h - header_h) \div 2
    IN  RadialPlaced(center_id, outer_ids, cx, cy,
                     RadialRing(Len(outer_ids), Min(canvas_w, canvas_h - header_h)),
                     canvas_w, canvas_h, header_h)

(***************************************************************************)
(* layout_zone_based.  zones is a sequence of records [name, nodes]; the   *)
(* result is the node position map (the zone rectangles are ZoneRects).    *)
(***************************************************************************)
ZoneRect(zi, n_zones, canvas_w, canvas_h, margin, header_h) ==
    LET usable_w == canvas_w - 2 * margin
        usable_h == canvas_h - header_h - margin
        zone_gap == 20
        row_gap == 20
        cols == (n_zones + 1) \div 2
        zone_w_h == (usable_w - (n_zones - 1) * zone_gap) \div n_zones
        zone_w_g == (usable_w - (cols - 1) * zone_gap) \div cols
        row_h == (usable_h - row_gap) \div 2
        r == (zi - 1) \div cols
        c == (zi - 1) % cols
    IN  IF n_zones <= 3
        THEN Box(margin + (zi - 1) * (zone_w_h + zone_gap), header_h + 10, zone_w_h, usable_h - 20)
        ELSE Box(margin + c * (zone_w_g + zone_gap), header_h + 10 + r * (row_h + row_gap),
                 zone_w_g, row_h)

ZoneRects(zones, canvas_w, canvas_h, margin, header_h) ==
    [zi \in 1..Len(zones) |-> ZoneRect(zi, Len(zones), canvas_w, canvas_h, margin, header_h)]

\* zone_node_map: the members of the last zone carrying the name
ZoneMembers(zones, zname) ==
    zones[CHOOSE i \in 1..Len(zones) :
            zones[i].name = zname /\ \A j \in (i + 1)..Len(zones) : zones[j].name # zname].nodes

ZoneNodeBoxes(node_ids_in_zone, bbox, zone_padding) ==
    LET inner_x == BoxX(bbox) + zone_padding
        inner_y == BoxY(bbox) + zone_padding + 25
        inner_w == BoxW(bbox) - 2 * zone_padding
        inner_h == BoxH(bbox) - 2 * zone_padding - 25
        n_local == Len(node_ids_in_zone)
        cols_local == IF n_local <= 3 THEN n_local
                      ELSE IF n_local <= 6 THEN 3 ELSE Min(4, n_local)
        rows_local == CeilDiv(n_local, cols_local)
        nw == Min((inner_w - (cols_local - 1) * 12) \div cols_local, 150)
        nh == Min((inner_h - (rows_local - 1) * 12) \div rows_local, 90)
        total_row_w == cols_local * nw + (cols_local - 1) * 12
        offset_x == (inner_w - total_row_w) \div 2
    IN  MapOf(node_ids_in_zone, [ni \in 1..n_local |->
            LET r == (ni - 1) \div cols_local
                c == (ni - 1) % cols_local
            IN  Box(inner_x + offset_x + c * (nw + 12), inner_y + r * (nh + 12), nw, nh)])

RECURSIVE ZonesFrom(_, _, _, _, _, _, _)
ZonesFrom(zones, zi, canvas_w, canvas_h, margin, header_h, zone_padding) ==
    IF zi > Len(zones) THEN EmptyMap
    ELSE LET members == ZoneMembers(zones, zones[zi].name)
             here == IF Len(members) = 0 THEN EmptyMap
                     ELSE ZoneNodeBoxes(members,
                              ZoneRect(zi, Len(zones), canvas_w, canvas_h, margin, header_h),
                              zone_padding)
         IN  Override(here, ZonesFrom(zones, zi + 1, canvas_w, canvas_h, margin, header_h,
                                      zone_padding))

layout_zone_based(zones, canvas_w, canvas_h, margin, header_h, zone_padding) ==
    IF Len(zones) = 0 THEN EmptyMap
    ELSE ZonesFrom(zones, 1, canvas_w, canvas_h, margin, header_h, zone_padding)


(***************************************************************************)
(* _manhattan_route: the orthogonal waypoints from start to end.  A point  *)
(* is <<x, y>>.                                                            *)
(***************************************************************************)
AbsDiff(a, b) == IF a >= b THEN a - b ELSE b - a

\* direction "auto" resolved: vertical first when dy > dx * 0.5
RouteDirection(direction, dx, dy) ==
    IF direction = "auto"
    THEN IF 2 * dy > dx THEN "v_first" ELSE "h_first"
    ELSE direction

manhattan_route(start, end, direction) ==
    LET sx == start[1]
        sy == start[2]
        ex == end[1]
        ey == end[2]
        dx == AbsDiff(ex, sx)
        dy == AbsDiff(ey, sy)
        mid_y == (sy + ey) \div 2
        mid_x == (sx + ex) \div 2
    IN  IF dx < 3 THEN <<<<sx, sy>>, <<sx, ey>>>>
        ELSE IF dy < 3 THEN <<<<sx, sy>>, <<ex, sy>>>>
        ELSE IF RouteDirection(direction, dx, dy) = "v_first"
        THEN <<<<sx, sy>>, <<sx, mid_y>>, <<ex, mid_y>>, <<ex, ey>>>>
        ELSE <<<<sx, sy>>, <<mid_x, sy>>, <<mid_x, ey>>, <<ex, ey>>>>

(***************************************************************************)
(* draw_connection and the arrow functions it dispatches to.  The result   *)
(* is the sequence of primitives drawn on the canvas: "line" (draw.line),  *)
(* "dashes" (the dashes of one dashed segment), "curve" (the sampled       *)
(* bezier polyline), "polygon" (an arrowhead) and "label" (the pill and    *)
(* its text).                                                              *)
(***************************************************************************)
SqDist(p, q) == (q[1] - p[1]) * (q[1] - p[1]) + (q[2] - p[2]) * (q[2] - p[2])

\* _draw_dashed_line returns without drawing when the segment has length 0
draw_dashed_line(start, end) == IF SqDist(start, end) = 0 THEN <<>> ELSE <<"dashes">>

RECURSIVE PolylineFrom(_, _, _)
PolylineFrom(points, i, dashed) ==
    IF i >= Len(points) THEN <<>>
    ELSE (IF dashed THEN draw_dashed_line(points[i], points[i + 1]) ELSE <<"line">>)
            \o PolylineFrom(points, i + 1, dashed)
draw_polyline(points, dashed) == PolylineFrom(points, 1, dashed)

\* _draw_label_on_path draws on any path of two or more points
draw_label_on_path(points, has_label) ==
    IF has_label /\ Len(points) >= 2 THEN <<"label">> ELSE <<>>

\* clean_points: a waypoint equal to the one kept before it is dropped
RECURSIVE CleanFrom(_, _, _)
CleanFrom(points, i, kept) ==
    IF i > Len(points) THEN kept
    ELSE CleanFrom(points, i + 1,
                   IF points[i] # kept[Len(kept)] THEN Append(kept, points[i]) ELSE kept)
CleanPoints(points) == CleanFrom(points, 2, <<points[1]>>)

draw_manhattan_arrow(start, end, dashed, has_label) ==
    LET points == CleanPoints(manhattan_route(start, end, "auto"))
    IN  IF Len(points) < 2 THEN <<>>
        ELSE draw_polyline(points, dashed) \o <<"polygon">>
                \o draw_label_on_path(points, has_label)

draw_straight_arrow(start, end, dashed) ==
    (IF dashed THEN draw_dashed_line(start, end) ELSE <<"line">>) \o <<"polygon">>

draw_bidirectional_arrow(start, end) ==
    IF SqDist(start, end) = 0 THEN <<>>
    ELSE <<"line", "polygon", "line", "polygon">>

\* dist < 5 for integer points: dx * dx + dy * dy < 25
BezierMinDist == 5
draw_bezier_arrow(start, end, has_label) ==
    IF SqDist(start, end) < BezierMinDist * BezierMinDist THEN <<>>
    ELSE <<"curve", "polygon">> \o (IF has_label THEN <<"label">> ELSE <<>>)

draw_connection(start, end, style, has_label, routing) ==
    IF style \in {"curved_arrow", "curved_dashed"} THEN draw_bezier_arrow(start, end, has_label)
    ELSE IF routing = "bezier" THEN draw_bezier_arrow(start, end, has_label)
    ELSE IF routing = "manhattan"
    THEN IF style = "bidirectional"
         THEN draw_bidirectional_arrow(start, end)
                \o draw_label_on_path(<<start, end>>, has_label)
         ELSE IF style = "dashed_arrow" THEN draw_manhattan_arrow(start, end, TRUE, has_label)
         ELSE IF style = "line"
         THEN draw_polyline(manhattan_route(start, end, "auto"), FALSE)
         ELSE draw_manhattan_arrow(start, end, FALSE, has_label)
    ELSE (IF style = "bidirectional" THEN draw_bidirectional_arrow(start, end)
          ELSE IF style = "dashed_arrow" THEN draw_straight_arrow(start, end, TRUE)
          ELSE IF style = "line" THEN <<"line">>
          ELSE draw_straight_arrow(start, end, FALSE))
            \o draw_label_on_path(<<start, end>>, has_label)

(***************************************************************************)
(* draw_text_block and draw_node.  A description is the number of lines it *)
(* wraps to at the width of the node (NoDesc for None, 0 for the empty     *)
(* string); a drawn text line is [what, line, ellipsis], where line is the *)
(* index of the wrapped line and ellipsis tells whether "..." ends it.     *)
(***************************************************************************)
TextLine(i, ellipsis) == [what |-> "text", line |-> i, ellipsis |-> ellipsis]
Drawn(what) == [what |-> what, line |-> 0, ellipsis |-> FALSE]

draw_text_block(total_lines, max_lines) ==
    LET \* len(lines[:max_lines]): a negative max_lines drops that many lines from the end
        visible == IF max_lines >= 0 THEN Min(total_lines, max_lines)
                   ELSE Max(total_lines + max_lines, 0)
    IN  [i \in 1..visible |->
            TextLine(i, total_lines > max_lines /\ i = visible)]

NodeDescMinH == 70
NodeDescMaxLines == 3
AccentShapes == {"rounded_rect", "rectangle"}

draw_node(h, shape, has_icon, description) ==
    <<Drawn("shape")>>
        \o (IF shape \in AccentShapes THEN <<Drawn("accent")>> ELSE <<>>)
        \o (IF has_icon THEN <<Drawn("icon")>> ELSE <<>>)
        \o <<Drawn("label")>>
        \o (IF description # NoDesc /\ description # 0 /\ h > NodeDescMinH
            THEN draw_text_block(description, NodeDescMaxLines)
            ELSE <<>>)

(***************************************************************************)
(* Fan-out of the connections that leave one source node in one vertical   *)
(* direction (_render_guidebook, _extract_arrow_paths).  siblings is the   *)
(* list of their targets, in connection order.                             *)
(***************************************************************************)
\* siblings.index(to_node), counted from 0
SiblingIndex(siblings, to_node) ==
    (CHOOSE i \in 1..Len(siblings) :
        siblings[i] = to_node /\ \A j \in 1..(i - 1) : siblings[j] # to_node) - 1

FanSpread(fw, n_out) == Min(fw - 20, n_out * 30)

FanOffset(fw, n_out, idx) ==
    ((0 - FanSpread(fw, n_out)) \div 2) + idx * (FanSpread(fw, n_out) \div Max(n_out - 1, 1))

\* the start point of the connection to to_node; the bottom edge when it goes down
ExitPoint(from_pos, siblings, to_node, down) ==
    LET edge_y == IF down THEN BoxY(from_pos) + BoxH(from_pos) ELSE BoxY(from_pos)
        n_out == Len(siblings)
    IN  IF n_out > 1
        THEN <<BoxX(from_pos) + BoxW(from_pos) \div 2
                  + FanOffset(BoxW(from_pos), n_out, SiblingIndex(siblings, to_node)),
               edge_y>>
        ELSE <<BoxX(from_pos) + BoxW(from_pos) \div 2, edge_y>>

ExitPoints(from_pos, siblings, down) ==
    [c \in 1..Len(siblings) |-> ExitPoint(from_pos, siblings, siblings[c], down)]

(***************************************************************************)
(* The denominators of the count divisions a strategy executes on its      *)
(* inputs, in the order of the code's guards: a call raises                *)
(* ZeroDivisionError when one of them is 0.                                *)
(***************************************************************************)
GridDivisors(n, cols0) ==
    IF n = 0 THEN {}
    ELSE IF GridCols(n, cols0) = 0 THEN {0}
    ELSE {GridCols(n, cols0), GridRows(n, cols0), GridRows(n, cols0) + 1}

FlowHorizontalDivisors(n) == IF n = 0 THEN {} ELSE {Max(n - 1, 1), n}

FlowVerticalDivisors(n) == IF n = 0 THEN {} ELSE {n}

LayeredDivisors_NoGuard(layers) ==
    {Len(layers)} \cup {Len(layers[li]) : li \in 1..Len(layers)}
LayeredDivisors(layers) ==
    IF Len(layers) = 0 THEN {}
    ELSE {Len(layers)} \cup
         UNION {IF Len(layers[li]) = 0 THEN {} ELSE {Max(Len(layers[li]), 1)} :
                    li \in 1..Len(layers)}

ColumnsDivisors(groups) ==
    IF Len(groups) = 0 THEN {}
    ELSE {Len(groups)} \cup {Max(Len(groups[ci]), 1) : ci \in 1..Len(groups)}

ZoneLocalCols(n_local) ==
    IF n_local <= 3 THEN n_local ELSE IF n_local <= 6 THEN 3 ELSE Min(4, n_local)

ZoneDivisors(zones) ==
    IF Len(zones) = 0 THEN {}
    ELSE {IF Len(zones) <= 3 THEN Len(zones) ELSE (Len(zones) + 1) \div 2} \cup
         UNION {LET n_local == Len(ZoneMembers(zones, zones[zi].name))
                IN  IF n_local = 0 THEN {}
                    ELSE {ZoneLocalCols(n_local), CeilDiv(n_local, ZoneLocalCols(n_local))} :
                    zi \in 1..Len(zones)}


(***************************************************************************)
(* resolve_overlaps.  A position map is the sequence of its boxes in key   *)
(* order (ids = list(positions.keys())).  ResolveRun also reports how many *)
(* passes of the outer loop ran and the moved flag of the last one.        *)
(***************************************************************************)
RoEdge == 10

\* the overlap test with the comparisons made inclusive
PaddedHit_Inclusive(a, b, padding) ==
    /\ BoxX(a) - padding <= BoxX(b) + BoxW(b) + padding
    /\ BoxX(a) + BoxW(a) + padding >= BoxX(b) - padding
    /\ BoxY(a) - padding <= BoxY(b) + BoxH(b) + padding
    /\ BoxY(a) + BoxH(a) + padding >= BoxY(b) - padding

PaddedHit(a, b, padding) ==
    /\ BoxX(a) - padding < BoxX(b) + BoxW(b) + padding
    /\ BoxX(a) + BoxW(a) + padding > BoxX(b) - padding
    /\ BoxY(a) - padding < BoxY(b) + BoxH(b) + padding
    /\ BoxY(a) + BoxH(a) + padding > BoxY(b) - padding

ClampBox(b, canvas_w, canvas_h) ==
    Box(Max(RoEdge, Min(BoxX(b), canvas_w - BoxW(b) - RoEdge)),
        Max(RoEdge, Min(BoxY(b), canvas_h - BoxH(b) - RoEdge)),
        BoxW(b), BoxH(b))

\* the pair <<a, b>> after the push along the axis of least overlap and the clamp
PushApart(a, b, padding, canvas_w, canvas_h) ==
    LET ax1 == BoxX(a) - padding
        ay1 == BoxY(a) - padding
        ax2 == BoxX(a) + BoxW(a) + padding
        ay2 == BoxY(a) + BoxH(a) + padding
        bx1 == BoxX(b) - padding
        by1 == BoxY(b) - padding
        bx2 == BoxX(b) + BoxW(b) + padding
        by2 == BoxY(b) + BoxH(b) + padding
        overlap_x == Min(ax2 - bx1, bx2 - ax1)
        overlap_y == Min(ay2 - by1, by2 - ay1)
        sx == overlap_x \div 2 + 1
        sy == overlap_y \div 2 + 1
        a1 == IF overlap_x < overlap_y
              THEN IF BoxX(a) < BoxX(b)
                   THEN Box(BoxX(a) - sx, BoxY(a), BoxW(a), BoxH(a))
                   ELSE Box(BoxX(a) + sx, BoxY(a), BoxW(a), BoxH(a))
              ELSE IF BoxY(a) < BoxY(b)
                   THEN Box(BoxX(a), BoxY(a) - sy, BoxW(a), BoxH(a))
                   ELSE Box(BoxX(a), BoxY(a) + sy, BoxW(a), BoxH(a))
        b1 == IF overlap_x < overlap_y
              THEN IF BoxX(a) < BoxX(b)
                   THEN Box(BoxX(b) + sx, BoxY(b), BoxW(b), BoxH(b))
                   ELSE Box(BoxX(b) - sx, BoxY(b), BoxW(b), BoxH(b))
              ELSE IF BoxY(a) < BoxY(b)
                   THEN Box(BoxX(b), BoxY(b) + sy, BoxW(b), BoxH(b))
                   ELSE Box(BoxX(b), BoxY(b) - sy, BoxW(b), BoxH(b))
    IN  <<ClampBox(a1, canvas_w, canvas_h), ClampBox(b1, canvas_w, canvas_h)>>

\* the pair step that pushes and clamps but never sets the moved flag
PairStep_NoFlag(st, i, j, padding, canvas_w, canvas_h) ==
    IF PaddedHit(st.pos[i], st.pos[j], padding)
    THEN LET ab == PushApart(st.pos[i], st.pos[j], padding, canvas_w, canvas_h)
         IN  [pos |-> [st.pos EXCEPT ![i] = ab[1], ![j] = ab[2]], moved |-> st.moved]
    ELSE st

\* the pair step with the clamp applied to every pair, overlapping or not
PairStep_ClampAlways(st, i, j, padding, canvas_w, canvas_h) ==
    IF PaddedHit(st.pos[i], st.pos[j], padding)
    THEN LET ab == PushApart(st.pos[i], st.pos[j], padding, canvas_w, canvas_h)
         IN  [pos |-> [st.pos EXCEPT ![i] = ab[1], ![j] = ab[2]], moved |-> TRUE]
    ELSE [pos |-> [st.pos EXCEPT ![i] = ClampBox(st.pos[i], canvas_w, canvas_h),
                                 ![j] = ClampBox(st.pos[j], canvas_w, canvas_h)],
          moved |-> st.moved]

\* body of the inner loops for one pair i < j: st = [pos, moved]
PairStep(st, i, j, padding, canvas_w, canvas_h) ==
    IF PaddedHit(st.pos[i], st.pos[j], padding)
    THEN LET ab == PushApart(st.pos[i], st.pos[j], padding, canvas_w, canvas_h)
         IN  [pos |-> [st.pos EXCEPT ![i] = ab[1], ![j] = ab[2]], moved |-> TRUE]
    ELSE st

\* for i in range(n): for j in range(i + 1, n), from the pair (i, j) on
RECURSIVE ResolvePairs(_, _, _, _, _, _)
ResolvePairs(st, i, j, padding, canvas_w, canvas_h) ==
    LET n == Len(st.pos)
    IN  IF i >= n THEN st
        ELSE IF j > n THEN ResolvePairs(st, i + 1, i + 2, padding, canvas_w, canvas_h)
        ELSE ResolvePairs(PairStep(st, i, j, padding, canvas_w, canvas_h), i, j + 1,
                          padding, canvas_w, canvas_h)

ResolvePass(pos, padding, canvas_w, canvas_h) ==
    ResolvePairs([pos |-> pos, moved |-> FALSE], 1, 2, padding, canvas_w, canvas_h)

\* for _ in range(max_iterations), with `done` passes behind
RECURSIVE ResolveLoop(_, _, _, _, _, _, _)
ResolveLoop(pos, done, last_moved, padding, max_iterations, canvas_w, canvas_h) ==
    IF done >= max_iterations
    THEN [pos |-> pos, passes |-> done, moved |-> last_moved]
    ELSE LET st == ResolvePass(pos, padding, canvas_w, canvas_h)
         IN  IF ~st.moved
             THEN [pos |-> st.pos, passes |-> done + 1, moved |-> FALSE]
             ELSE ResolveLoop(st.pos, done + 1, TRUE, padding, max_iterations,
                              canvas_w, canvas_h)

ResolveRun(positions, padding, max_iterations, canvas_w, canvas_h) ==
    IF Len(positions) < 2
    THEN [pos |-> positions, passes |-> 0, moved |-> FALSE]
    ELSE ResolveLoop(positions, 0, FALSE, padding, max_iterations, canvas_w, canvas_h)

resolve_overlaps(positions, padding, max_iterations, canvas_w, canvas_h) ==
    ResolveRun(positions, padding, max_iterations, canvas_w, canvas_h).pos

(***************************************************************************)
(* layout_force_directed (layout.py): the force simulation.  The nodes     *)
(* carry no group and no zone, so that every start position is the centre  *)
(* of the usable area plus two draws of the generator seeded with 42; the  *)
(* positions are floats.  Node i of the list has id i.                     *)
(***************************************************************************)
\* the float m * 2^e given by the four low limbs of its 53-bit m
DOf(limbs, e) ==
    [neg |-> FALSE, m |-> Limbs([i \in LimbIdx |-> IF i <= 4 THEN limbs[i] ELSE 0]), e |-> e]
\* min(x, y) and max(x, y), which keep x unless y is smaller (greater)
DMin(x, y) == IF DCmp(y, x) < 0 THEN y ELSE x
DMax(x, y) == IF DCmp(y, x) > 0 THEN y ELSE x
\* max(lo, min(hi, v)) for integers lo and hi
DClamp(lo, hi, v) == DMax(DFromInt(lo), DMin(DFromInt(hi), v))

\* one more limb of a square root, as SqrtStep, taking in two limbs of the radicand
SqrtStepIn(st, hi, lo) ==
    SqrtFrom(st, NPush(NPush(st.rem, hi), lo), NPush(NAdd(st.res, st.res), 0))

\* math.sqrt(x) for x >= 0: the mantissa is brought to 55 or 56 bits under an
\* even exponent, the root of its two leading limbs is one limb, and four more
\* limbs are taken
DSqrt(x) ==
    IF DIsZero(x) THEN DZero
    ELSE LET odd == (x.e % 2) = 1
             r == NShl(x.m, IF odd THEN 3 ELSE 2)
             e == IF odd THEN x.e - 3 ELSE x.e - 2
             v == r[4] * LimbBase + r[3]
             r0 == SqrtSmall(v)
             s1 == SqrtStepIn([res |-> NFromInt(r0), rem |-> NFromInt(v - r0 * r0)], r[2], r[1])
             s2 == SqrtStep(s1)
             s3 == SqrtStep(s2)
         IN  SqrtRounded(SqrtStep(s3), (e \div 2) - 3 * LimbBits)

\* The process-wide generator of the random module is a record [seed, drawn]:
\* the seed it was last given and the number of values drawn since.
ForceSeed == 42
\* random.seed(a)
seed_Skipped(rng, a) == rng
seed(rng, a) == [seed |-> a, drawn |-> 0]

\* the generator after `count` more draws
Advance(rng, count) == [rng EXCEPT !.drawn = @ + count]

\* random.random() for the first draws after random.seed(42)
Random42 ==
    <<DOf(<<197, 456, 8947, 1309>>, 0 - 53), DOf(<<8288, 15276, 1717, 1639>>, 0 - 58),
      DOf(<<2524, 2006, 8521, 1126>>, 0 - 54), DOf(<<3100, 2286, 8886, 1828>>, 0 - 55),
      DOf(<<13438, 4515, 4801, 1508>>, 0 - 53), DOf(<<12698, 15321, 14426, 1385>>, 0 - 53),
      DOf(<<13456, 10425, 3010, 1827>>, 0 - 53), DOf(<<4232, 2965, 6649, 1424>>, 0 - 56),
      DOf(<<5958, 260, 3142, 1728>>, 0 - 54), DOf(<<13472, 12280, 12952, 1952>>, 0 - 58),
      DOf(<<15008, 3811, 1348, 1791>>, 0 - 55), DOf(<<14233, 10657, 15853, 1034>>, 0 - 53)>>
\* random.uniform(-40, 40), draw k after the seeding: a + (b - a) * random()
Uniform42(k) == DAdd(DFromInt(0 - 40), DMul(DFromInt(80), Random42[k]))

\* pos_x, pos_y after the seeding by group, as a tuple of <<x, y>>
ForceStart(n, canvas_w, canvas_h, margin, header_h) ==
    LET usable_w == canvas_w - 2 * margin
        usable_h == canvas_h - header_h - margin
        cx == margin + usable_w \div 2
        cy == header_h + usable_h \div 2
    IN  SubSeq([idx \in 1..n |-> <<DAdd(DFromInt(cx), Uniform42(2 * idx - 1)),
                                   DAdd(DFromInt(cy), Uniform42(2 * idx))>>], 1, n)

damping == DRatio(1, 2)
attraction_k == DRatio(12, 1000)
\* the temperature under which the loop breaks
ForceMinTemp == DRatio(1, 100)

\* repulsion_k
ForceRepulsion(n, canvas_w, canvas_h, margin, header_h) ==
    LET usable_w == canvas_w - 2 * margin
        usable_h == canvas_h - header_h - margin
    IN  DMax(DFromInt(8000),
             DMul(DRatio(usable_w * usable_h, Max(n * n, 1)), DRatio(5, 10)))

\* temp of an iteration, counted from 0
ForceTemp(iteration, iterations) ==
    DMul(damping, DSub(DFromInt(1), DRatio(iteration, iterations)))
\* the loop runs this iteration: it is below iterations and temp >= 0.01
ForceRuns(iteration, iterations) ==
    iteration < iterations /\ DCmp(ForceTemp(iteration, iterations), ForceMinTemp) >= 0

\* the pairs i < j in the order of the two loops
ForcePairs(n) ==
    LET count == (n * (n - 1)) \div 2
        Before(i) == ((i - 1) * (2 * n - i)) \div 2
    IN  SubSeq([k \in 1..count |->
                   LET i == CHOOSE a \in 1..n : Before(a) < k /\ k <= Before(a + 1)
                   IN  <<i, i + k - Before(i)>>], 1, count)

\* dx * dx + dy * dy + 1
ForceDistSq(dx, dy) == DAdd(DAdd(DMul(dx, dx), DMul(dy, dy)), DFromInt(1))

\* fdx = force * dx / dist, fdy = force * dy / dist: what a pair adds to fx[i],
\* fy[i] and takes from fx[j], fy[j]
ForceAlong(i, j, dx, dy, dist, force) ==
    [i |-> i, j |-> j, fdx |-> DDiv(DMul(force, dx), dist),
     fdy |-> DDiv(DMul(force, dy), dist)]

\* the repulsion over dx, dy: dist = sqrt(dist_sq), force = repulsion_k / dist_sq
RepelOver(i, j, dx, dy, dist_sq, repulsion_k) ==
    ForceAlong(i, j, dx, dy, DSqrt(dist_sq), DDiv(repulsion_k, dist_sq))

\* the attraction over dx, dy: force = attraction_k * dist
AttractOver(i, j, dx, dy, dist) ==
    ForceAlong(i, j, dx, dy, dist, DMul(attraction_k, dist))

\* what one repelling pair adds and takes, from dx = pos_x[i] - pos_x[j] and dy
ForceRepelBy(i, j, dx, dy, repulsion_k) ==
    RepelOver(i, j, dx, dy, ForceDistSq(dx, dy), repulsion_k)

ForceRepel(pos, i, j, repulsion_k) ==
    ForceRepelBy(i, j, DSub(pos[i][1], pos[j][1]), DSub(pos[i][2], pos[j][2]),
                 repulsion_k)

\* what one connection between two nodes adds and takes, from
\* dx = pos_x[j] - pos_x[i] and dy
ForceAttractBy(i, j, dx, dy) ==
    AttractOver(i, j, dx, dy, DSqrt(ForceDistSq(dx, dy)))

ForceAttract(pos, i, j) ==
    ForceAttractBy(i, j, DSub(pos[j][1], pos[i][1]), DSub(pos[j][2], pos[i][2]))

\* the forces of one iteration in the order they are added: the pairs, then the
\* connections whose two ends are nodes
ForceTerms(pos, connections, repulsion_k) ==
    LET n == Len(pos)
        pairs == ForcePairs(n)
        joined == SelectSeq(connections,
                            LAMBDA c : c.from_node \in 1..n /\ c.to_node \in 1..n)
    IN  SubSeq([k \in 1..Len(pairs) |->
                   ForceRepel(pos, pairs[k][1], pairs[k][2], repulsion_k)], 1, Len(pairs))
            \o SubSeq([k \in 1..Len(joined) |->
                   ForceAttract(pos, joined[k].from_node, joined[k].to_node)], 1, Len(joined))

\* fx[i], fy[i] once the first k terms are added
RECURSIVE ForceOn(_, _, _)
ForceOn(terms, i, k) ==
    IF k = 0 THEN <<DZero, DZero>>
    ELSE LET f == ForceOn(terms, i, k - 1)
             t == terms[k]
             added == IF t.i = i THEN <<DAdd(f[1], t.fdx), DAdd(f[2], t.fdy)>> ELSE f
         IN  IF t.j = i THEN <<DSub(added[1], t.fdx), DSub(added[2], t.fdy)>> ELSE added

\* pos_x, pos_y once the forces are applied: each node moves by its force times
\* temp and is clamped to the canvas
ForceApply(pos, terms, temp, canvas_w, canvas_h, margin, header_h, node_w, node_h) ==
    SubSeq([i \in 1..Len(pos) |->
        LET f == ForceOn(terms, i, Len(terms))
        IN  <<DClamp(margin + node_w \div 2, canvas_w - margin - node_w \div 2,
                     DAdd(pos[i][1], DMul(f[1], temp))),
              DClamp(header_h + node_h \div 2, canvas_h - margin - node_h \div 2,
                     DAdd(pos[i][2], DMul(f[2], temp)))>>], 1, Len(pos))

\* pos_x, pos_y after one iteration of the simulation
ForceIterate(pos, connections, repulsion_k, temp, canvas_w, canvas_h, margin, header_h, node_w, node_h) ==
    ForceApply(pos, ForceTerms(pos, connections, repulsion_k), temp, canvas_w, canvas_h,
               margin, header_h, node_w, node_h)

\* min(values) and max(values) of floats
RECURSIVE DMinOf(_, _)
DMinOf(s, k) == IF k = 1 THEN s[1] ELSE DMin(DMinOf(s, k - 1), s[k])
RECURSIVE DMaxOf(_, _)
DMaxOf(s, k) == IF k = 1 THEN s[1] ELSE DMax(DMaxOf(s, k - 1), s[k])

\* one coordinate after the expansion: c + (p - c) * (target / max(span, 1))
\* when 0 < span < target * 0.6
SpreadOver(p, span, c, target) ==
    IF DCmp(span, DZero) > 0 /\ DCmp(span, DMul(target, DRatio(6, 10))) < 0
    THEN DAdd(DFromInt(c), DMul(DSub(p, DFromInt(c)),
                                DDiv(target, DMax(span, DFromInt(1)))))
    ELSE p

ForceSpread(p, lo, hi, c, target) == SpreadOver(p, DSub(hi, lo), c, target)

\* the post-processing of more than one node: expand, then clamp again
ForceExpand(pos, canvas_w, canvas_h, margin, header_h, node_w, node_h) ==
    LET n == Len(pos)
        usable_w == canvas_w - 2 * margin
        usable_h == canvas_h - header_h - margin
        cx == margin + usable_w \div 2
        cy == header_h + usable_h \div 2
        xs == SubSeq([i \in 1..n |-> pos[i][1]], 1, n)
        ys == SubSeq([i \in 1..n |-> pos[i][2]], 1, n)
        target_w == DMul(DFromInt(usable_w), DRatio(75, 100))
        target_h == DMul(DFromInt(usable_h), DRatio(70, 100))
    IN  IF n <= 1 THEN pos
        ELSE SubSeq([i \in 1..n |->
                <<DClamp(margin + node_w \div 2, canvas_w - margin - node_w \div 2,
                         ForceSpread(pos[i][1], DMinOf(xs, n), DMaxOf(xs, n), cx, target_w)),
                  DClamp(header_h + node_h \div 2, canvas_h - margin - node_h \div 2,
                         ForceSpread(pos[i][2], DMinOf(ys, n), DMaxOf(ys, n), cy, target_h))>>],
                    1, n)

\* int(pos_x[i]), int(pos_y[i])
ForceCentres(pos) == SubSeq([i \in 1..Len(pos) |-> <<DTrunc(pos[i][1]), DTrunc(pos[i][2])>>],
                            1, Len(pos))

\* max(lo, min(hi, v))
Clamp(lo, hi, v) == Max(lo, Min(hi, v))

\* positions[nid] = (x, y, node_w, node_h)
ForceBoxes(centres, node_w, node_h) ==
    [i \in 1..Len(centres) |->
        Box(centres[i][1] - node_w \div 2, centres[i][2] - node_h \div 2, node_w, node_h)]

ForcePadding == 15
ResolveDefaultIterations == 50
ResolveDefaultCanvasW == 1400
ResolveDefaultCanvasH == 900

\* the end of layout_force_directed: the boxes returned for nodes whose centres
\* int(pos_x), int(pos_y) are `centres`, after the final resolve_overlaps
layout_force_directed(centres, node_w, node_h) ==
    IF Len(centres) = 0 THEN <<>>
    ELSE resolve_overlaps(ForceBoxes(centres, node_w, node_h), ForcePadding,
                          ResolveDefaultIterations, ResolveDefaultCanvasW,
                          ResolveDefaultCanvasH)

(***************************************************************************)
(* Specification of resolve_overlaps: the arguments are drawn in the       *)
(* initial state, Resolve calls the function and ResolveAgain calls it on  *)
(* the result with the same padding, max_iterations and canvas.            *)
(***************************************************************************)
RoXs == {10, 18, 20}
RoYs == {10, 16}
RoWs == {6, 12}
RoHs == {6}
RoBoxes == {Box(x, y, w, h) : x \in RoXs, y \in RoYs, w \in RoWs, h \in RoHs}
RoInputs == UNION {[1..n -> RoBoxes] : n \in 0..MaxBoxes}
(***************************************************************************)
(* Each specification below drives one part of the program; the variables  *)
(* of the other parts rest at these values.                                *)
(***************************************************************************)
NoRun == [pos |-> <<>>, passes |-> 0, moved |-> FALSE]

LayIdle ==
    /\ lay_call = [fn |-> "none"]
    /\ lay_pos = EmptyMap

RoIdle ==
    /\ ro_stage = "idle"
    /\ ro_in = <<>>
    /\ ro_mi = 0
    /\ ro_once = NoRun
    /\ ro_twice = NoRun

IpIdle ==
    /\ ip_stage = "idle"
    /\ ip_path = <<>>
    /\ ip_t = 0
    /\ ip_out = None

MeIdle ==
    /\ me_stage = "idle"
    /\ me_in = <<>>
    /\ me_out = <<>>

FrIdle ==
    /\ fr_stage = "idle"
    /\ fr_fn = <<>>
    /\ fr_before = <<>>
    /\ fr_heap = <<>>
    /\ fr_ret = <<>>

MrIdle ==
    /\ mr_stage = "idle"
    /\ mr_in = <<>>
    /\ mr_out = <<>>

DcIdle ==
    /\ dc_stage = "idle"
    /\ dc_in = <<>>
    /\ dc_out = <<>>

DnIdle ==
    /\ dn_stage = "idle"
    /\ dn_in = <<>>
    /\ dn_out = <<>>

FdIdle ==
    /\ fd_stage = "idle"
    /\ fd_in = <<>>
    /\ fd_sim = <<>>
    /\ fd_out = <<>>

ScIdle ==
    /\ sc_stage = "idle"
    /\ sc_in = <<>>
    /\ sc_fn = <<>>
    /\ sc_out = <<>>

FoIdle ==
    /\ fo_stage = "idle"
    /\ fo_in = <<>>
    /\ fo_out = <<>>

AcIdle ==
    /\ ac_stage = "idle"
    /\ ac_in = <<>>
    /\ ac_out = <<>>

DgIdle ==
    /\ dg_stage = "idle"
    /\ dg_in = <<>>
    /\ dg_out = <<>>

SdIdle ==
    /\ sd_stage = [at |-> "off"]
    /\ sd_rng = <<>>
    /\ sd_log = <<>>

RpIdle ==
    /\ rp_stage = "idle"
    /\ rp_in = <<>>
    /\ rp_out = <<>>

DlIdle ==
    /\ dl_stage = "idle"
    /\ dl_in = <<>>
    /\ dl_out = <<>>

LpIdle ==
    /\ lp_stage = "idle"
    /\ lp_in = <<>>
    /\ lp_out = <<>>

AmIdle ==
    /\ am_stage = "idle"
    /\ am_in = <<>>
    /\ am_out = <<>>

PlIdle ==
    /\ pl_stage = "idle"
    /\ pl_ctx = <<>>
    /\ pl_env = <<>>
    /\ pl_out = <<>>

OthersIdle(part) ==
    /\ part = "lay" \/ LayIdle
    /\ part = "ro" \/ RoIdle
    /\ part = "ip" \/ IpIdle
    /\ part = "me" \/ MeIdle
    /\ part = "fr" \/ FrIdle
    /\ part = "mr" \/ MrIdle
    /\ part = "dc" \/ DcIdle
    /\ part = "dn" \/ DnIdle
    /\ part = "fd" \/ FdIdle
    /\ part = "sc" \/ ScIdle
    /\ part = "fo" \/ FoIdle
    /\ part = "ac" \/ AcIdle
    /\ part = "dg" \/ DgIdle
    /\ part = "sd" \/ SdIdle
    /\ part = "rp" \/ RpIdle
    /\ part = "dl" \/ DlIdle
    /\ part = "lp" \/ LpIdle
    /\ part = "am" \/ AmIdle
    /\ part = "pl" \/ PlIdle

InitResolve ==
    /\ OthersIdle("ro")
    /\ ro_stage = "input"
    /\ ro_in \in RoInputs
    /\ ro_mi \in 1..MaxIter
    /\ ro_once = NoRun
    /\ ro_twice = NoRun

Resolve ==
    /\ ro_stage = "input"
    /\ ro_stage' = "once"
    /\ ro_once' = ResolveRun(ro_in, RoPadding, ro_mi, RoCanvasW, RoCanvasH)
    /\ UNCHANGED <<ro_in, ro_mi, ro_twice, notRo>>

ResolveAgain ==
    /\ ro_stage = "once"
    /\ ro_stage' = "twice"
    /\ ro_twice' = ResolveRun(ro_once.pos, RoPadding, ro_mi, RoCanvasW, RoCanvasH)
    /\ UNCHANGED <<ro_in, ro_mi, ro_once, notRo>>

NextResolve ==
    \/ Resolve
    \/ ResolveAgain

SpecResolve == InitResolve /\ [][NextResolve]_vars

(***************************************************************************)
(* Interpolation specification: a path over a few waypoints and a          *)
(* parameter t of 0.0, 0.5 or 1.0 are chosen, and the function is called   *)
(* once.                                                                   *)
(***************************************************************************)
IpXs == {0, 3, 100}
IpYs == {0, 4}
IpPoints == {<<x, y>> : x \in IpXs, y \in IpYs}
IpPaths == UNION {[1..n -> IpPoints] : n \in 0..MaxWaypoints}

\* the float t for ip_t halves: 0.0, 0.5 or 1.0
HalvesFloat(k) == DDiv(DFromInt(k), DFromInt(2))

InitInterp ==
    /\ OthersIdle("ip")
    /\ ip_stage = "input"
    /\ ip_path \in IpPaths
    /\ ip_t \in 0..2
    /\ ip_out = None

Interpolate ==
    /\ ip_stage = "input"
    /\ ip_stage' = "done"
    /\ ip_out' = interpolate_along_path(ip_path, HalvesFloat(ip_t))
    /\ UNCHANGED <<ip_path, ip_t, notIp>>

NextInterp == Interpolate

SpecInterp == InitInterp /\ [][NextInterp]_vars

(***************************************************************************)
(* Layout specification: the inputs of one layout call are drawn from      *)
(* bounded sets and the strategy is applied to them.                       *)
(***************************************************************************)
GridMargin == 50
GridHeaderH == 100
GridRowGap == 40
GridColGap == 20
GridFooterH == 28
FlowMargin == 60
FlowHeaderH == 80
LayeredMargin == 60
LayeredHeaderH == 100
ColumnsMargin == 60
ColumnsHeaderH == 80
ZoneMargin == 60
ZoneHeaderH == 100
ZonePadding == 35
\* layout_radial takes no margin: it keeps the outer boxes 20 px off the canvas edge
RadialEdge == 20
RadialHeaderH == 80
\* margin and header_h of the architecture renderer, without and with a subtitle
ArchitectureMargin == 50
ArchitectureHeaderH == 80
ArchitectureSubtitleHeaderH == 95

IdSeq(n) == [i \in 1..n |-> i]
DescChoices == {NoDesc} \cup (0..MaxLines)
\* n nodes that all carry the same description length and icon flag
UniformNodes(n, desc, icon) == [i \in 1..n |-> [id |-> i, desc |-> desc, icon |-> icon]]
\* n nodes whose descriptions differ in length: node i wraps to (desc + i) lines
\* modulo the longest, or has no description when desc is NoDesc
VariedNodes(n, desc) ==
    [i \in 1..n |-> [id |-> i, icon |-> TRUE,
                     desc |-> IF desc = NoDesc THEN NoDesc ELSE (desc + i) % (MaxLines + 1)]]
\* ids 1..n dealt round-robin into k groups (a group is empty when n < k)
Deal(n, k) == [j \in 1..k |-> SelectSeq(IdSeq(n), LAMBDA i : ((i - 1) % k) + 1 = j)]

\* one layout request: the strategy that has run ("none" before the call) and its arguments
CallRec(fn, n, k, cv, desc) ==
    [fn |-> fn, n |-> n, k |-> k, cw |-> cv[1], ch |-> cv[2], margin |-> 0, header_h |-> 0,
     desc |-> desc, raised |-> FALSE]

Requests ==
    {CallRec("none", n, k, cv, desc) :
        n \in 1..MaxNodes, k \in 1..MaxGroups, cv \in CanvasSizes, desc \in DescChoices}

\* the arguments are drawn here; each action applies one strategy to them
InitLayout == OthersIdle("lay") /\ lay_call \in Requests /\ lay_pos = EmptyMap

Pending == lay_call.fn = "none"
\* the call has run: it raised when one of its divisors was 0, else it returned positions
Ran(fn, margin, header_h, divisors) ==
    lay_call' = [lay_call EXCEPT !.fn = fn, !.margin = margin, !.header_h = header_h,
                                 !.raised = 0 \in divisors]
Returned(divisors, positions) == IF 0 \in divisors THEN lay_pos ELSE positions
\* the groups, layers or zone member lists of a request
Groups == Deal(lay_call.n, lay_call.k)
Zones == [j \in 1..lay_call.k |-> [name |-> j, nodes |-> Groups[j]]]

CallGrid ==
    /\ Pending
    /\ UNCHANGED notLay
    /\ Ran("grid", GridMargin, GridHeaderH, GridDivisors(lay_call.n, lay_call.k))
    /\ lay_pos' = Returned(GridDivisors(lay_call.n, lay_call.k),
                    layout_grid(IdSeq(lay_call.n), lay_call.cw, lay_call.ch, lay_call.k,
                                  GridMargin, GridHeaderH, GridRowGap, GridColGap, GridFooterH, NoHeights))

\* layout_grid called with `nodes`, which makes the rows content-aware; the other
\* arguments are the defaults of the function, as in CallGrid
CallGridNodes ==
    /\ Pending
    /\ UNCHANGED notLay
    /\ Ran("grid_nodes", GridMargin, GridHeaderH, GridDivisors(lay_call.n, lay_call.k))
    /\ lay_pos' = Returned(GridDivisors(lay_call.n, lay_call.k),
                    layout_grid(IdSeq(lay_call.n), lay_call.cw, lay_call.ch, lay_call.k,
                                  GridMargin, GridHeaderH, GridRowGap, GridColGap, GridFooterH,
                                  measure_content_heights(VariedNodes(lay_call.n, lay_call.desc),
                                                          TRUE, FALSE, 70, 250)))

CallFlowHorizontal ==
    /\ Pending
    /\ UNCHANGED notLay
    /\ Ran("flow_horizontal", FlowMargin, FlowHeaderH, FlowHorizontalDivisors(lay_call.n))
    /\ lay_pos' = Returned(FlowHorizontalDivisors(lay_call.n),
                    layout_flow_horizontal(IdSeq(lay_call.n), lay_call.cw, lay_call.ch,
                                             FlowMargin, FlowHeaderH, NoHeights))

CallFlowVertical ==
    /\ Pending
    /\ UNCHANGED notLay
    /\ Ran("flow_vertical", FlowMargin, FlowHeaderH, FlowVerticalDivisors(lay_call.n))
    /\ lay_pos' = Returned(FlowVerticalDivisors(lay_call.n),
                    layout_flow_vertical(IdSeq(lay_call.n), lay_call.cw, lay_call.ch,
                                           FlowMargin, FlowHeaderH))

CallLayered ==
    /\ Pending
    /\ UNCHANGED notLay
    /\ Ran("layered", LayeredMargin, LayeredHeaderH, LayeredDivisors(Groups))
    /\ lay_pos' = Returned(LayeredDivisors(Groups),
                    layout_layered(Groups,
                                     UniformNodes(lay_call.n, lay_call.desc, TRUE),
                                     lay_call.cw, lay_call.ch, LayeredMargin, LayeredHeaderH))

CallColumns ==
    /\ Pending
    /\ UNCHANGED notLay
    /\ Ran("columns", ColumnsMargin, ColumnsHeaderH, ColumnsDivisors(Groups))
    /\ lay_pos' = Returned(ColumnsDivisors(Groups),
                    layout_columns(Groups, lay_call.cw, lay_call.ch,
                                     ColumnsMargin, ColumnsHeaderH))

CallZoneBased ==
    /\ Pending
    /\ UNCHANGED notLay
    /\ Ran("zone_based", ZoneMargin, ZoneHeaderH, ZoneDivisors(Zones))
    /\ lay_pos' = Returned(ZoneDivisors(Zones),
                    layout_zone_based(
                          Zones,
                          lay_call.cw, lay_call.ch, ZoneMargin, ZoneHeaderH, ZonePadding))

\* the first node is the centre, the others are the outer nodes
CallRadial ==
    /\ Pending
    /\ lay_call.n >= 1
    /\ UNCHANGED notLay
    /\ Ran("radial", RadialEdge, RadialHeaderH, {})
    /\ lay_pos' = layout_radial(1, Tail(IdSeq(lay_call.n)), lay_call.cw, lay_call.ch,
                                RadialHeaderH)

NextLayout ==
    \/ CallGrid
    \/ CallGridNodes
    \/ CallFlowHorizontal
    \/ CallFlowVertical
    \/ CallLayered
    \/ CallColumns
    \/ CallRadial
    \/ CallZoneBased

SpecLayout == InitLayout /\ [][NextLayout]_vars

\* the strategies called on a scene without nodes: no ids, and k layers,
\* columns or zones (none at all when k = 0) that have no members.  layout_radial
\* is not among them: its centre is a node.
EmptyRequests ==
    {CallRec("none", 0, k, cv, desc) :
        k \in 0..MaxGroups, cv \in CanvasSizes, desc \in DescChoices}

InitEmpty == OthersIdle("lay") /\ lay_call \in EmptyRequests /\ lay_pos = EmptyMap

NextEmpty ==
    \/ CallGrid
    \/ CallGridNodes
    \/ CallFlowHorizontal
    \/ CallFlowVertical
    \/ CallLayered
    \/ CallColumns
    \/ CallZoneBased

SpecEmpty == InitEmpty /\ [][NextEmpty]_vars

\* C1: every box returned by a layout strategy for 1..50 nodes lies inside the
\* canvas minus the margin: margin <= x, x + w <= canvas_w - margin,
\* margin <= y and y + h <= canvas_h - margin.
BoxWithinMargin(b, cw, ch, margin) ==
    /\ margin <= BoxX(b)
    /\ BoxX(b) + BoxW(b) <= cw - margin
    /\ margin <= BoxY(b)
    /\ BoxY(b) + BoxH(b) <= ch - margin

C1_Containment ==
    lay_call.fn # "none" =>
        \A id \in DOMAIN lay_pos :
            BoxWithinMargin(lay_pos[id], lay_call.cw, lay_call.ch, lay_call.margin)

(***************************************************************************)
(* Measurement specification: the arguments of measure_node_content_height *)
(* are chosen, with a second description, and the function is called once  *)
(* with each description, all other arguments the same.                    *)
(***************************************************************************)
\* min_h and max_h: the defaults and the values the layout strategies pass
MeasureMins == {60, 70, 90}
MeasureMaxs == {70, 250, 280, 300}

MeasureInputs ==
    [desc : DescChoices, desc2 : DescChoices, has_icon : BOOLEAN,
     is_header_style : BOOLEAN, is_pipeline : BOOLEAN,
     min_h : MeasureMins, max_h : MeasureMaxs]

MeasureCall(desc) ==
    measure_node_content_height(desc, me_in.has_icon, me_in.min_h, me_in.max_h,
                                me_in.is_header_style, me_in.is_pipeline)

InitMeasure ==
    /\ OthersIdle("me")
    /\ me_stage = "input"
    /\ me_in \in MeasureInputs
    /\ me_out = <<>>

Measure ==
    /\ me_stage = "input"
    /\ me_stage' = "once"
    /\ me_out' = <<MeasureCall(me_in.desc)>>
    /\ UNCHANGED <<me_in, notMe>>

MeasureAgain ==
    /\ me_stage = "once"
    /\ me_stage' = "twice"
    /\ me_out' = <<me_out[1], MeasureCall(me_in.desc2)>>
    /\ UNCHANGED <<me_in, notMe>>

NextMeasure ==
    \/ Measure
    \/ MeasureAgain

SpecMeasure == InitMeasure /\ [][NextMeasure]_vars

(***************************************************************************)
(* Routing specification: start, end and direction are chosen and          *)
(* _manhattan_route is called on them.                                     *)
(***************************************************************************)
MrCoords == {0, 2, 3, 7, 40}
MrPoints == MrCoords \X MrCoords
MrDirections == {"auto", "v_first", "h_first"}

InitRoute ==
    /\ OthersIdle("mr")
    /\ mr_stage = "input"
    /\ mr_in \in [start : MrPoints, end : MrPoints, direction : MrDirections]
    /\ mr_out = <<>>

Route ==
    /\ mr_stage = "input"
    /\ mr_stage' = "done"
    /\ mr_out' = manhattan_route(mr_in.start, mr_in.end, mr_in.direction)
    /\ UNCHANGED <<mr_in, notMr>>

NextRoute == Route

SpecRoute == InitRoute /\ [][NextRoute]_vars

(***************************************************************************)
(* Connection specification: the anchor points, the style, the routing     *)
(* mode and the label are chosen and draw_connection is called on them.    *)
(***************************************************************************)
DcCoords == {0, 2, 3, 4, 30}
DcPoints == DcCoords \X DcCoords
ConnectionStyles ==
    {"arrow", "dashed_arrow", "line", "bidirectional", "curved_arrow", "curved_dashed"}
RoutingModes == {"manhattan", "straight", "bezier"}

InitConnect ==
    /\ OthersIdle("dc")
    /\ dc_stage = "input"
    /\ dc_in \in [start : DcPoints, end : DcPoints, style : ConnectionStyles,
                  routing : RoutingModes, has_label : BOOLEAN]
    /\ dc_out = <<>>

Connect ==
    /\ dc_stage = "input"
    /\ dc_stage' = "done"
    /\ dc_out' = draw_connection(dc_in.start, dc_in.end, dc_in.style, dc_in.has_label,
                                 dc_in.routing)
    /\ UNCHANGED <<dc_in, notDc>>

NextConnect == Connect

SpecConnect == InitConnect /\ [][NextConnect]_vars

(***************************************************************************)
(* Node drawing specification: the height of the box, the shape, the icon  *)
(* flag and the description are chosen and draw_node is called on them.    *)
(***************************************************************************)
NodeHeights == {60, 70, 71, 90, 140}
NodeShapes == {"rounded_rect", "rectangle", "cylinder", "diamond", "circle", "hexagon", "cloud"}
\* descriptions of up to two lines more than a node shows
NodeDescriptions == {NoDesc} \cup (0..(MaxLines + 2))

InitNode ==
    /\ OthersIdle("dn")
    /\ dn_stage = "input"
    /\ dn_in \in [h : NodeHeights, shape : NodeShapes, has_icon : BOOLEAN,
                  description : NodeDescriptions]
    /\ dn_out = <<>>

DrawNode ==
    /\ dn_stage = "input"
    /\ dn_stage' = "done"
    /\ dn_out' = draw_node(dn_in.h, dn_in.shape, dn_in.has_icon, dn_in.description)
    /\ UNCHANGED <<dn_in, notDn>>

NextNode == DrawNode

SpecNode == InitNode /\ [][NextNode]_vars

(***************************************************************************)
(* Force-directed specification: the number of nodes and the canvas are    *)
(* chosen, for nodes without connections, or the scene is two connected    *)
(* nodes; the call seeds the positions, runs the iterations of the         *)
(* simulation one by one and returns the resolved boxes.                   *)
(***************************************************************************)
ForceMargin == 80
ForceHeaderH == 120
ForceNodeW == 160
ForceNodeH == 90
ForceCanvasSizes == {<<DefaultCanvasW, DefaultCanvasH>>, <<800, 600>>, <<600, 400>>}

\* two connected nodes, with one more connection whose target is no node
ForceConnected ==
    [n |-> 2, canvas |-> <<DefaultCanvasW, DefaultCanvasH>>,
     connections |-> <<[from_node |-> 2, to_node |-> 1],
                       [from_node |-> 1, to_node |-> MaxBoxes + 2]>>,
     rng |-> [seed |-> 2, drawn |-> 0]]

ForceIterations == 150

InitForce ==
    /\ OthersIdle("fd")
    /\ fd_stage = "input"
    /\ fd_in \in [n : 0..MaxBoxes, canvas : ForceCanvasSizes, connections : {<<>>},
                  rng : {[seed |-> 1, drawn |-> 0]}] \cup {ForceConnected}
    /\ fd_sim = <<>>
    /\ fd_out = <<>>

\* the call up to the simulation loop: the generator is seeded; no node returns
\* the empty map, otherwise the positions are seeded with two draws per node
ForceBegin ==
    /\ fd_stage = "input"
    /\ IF fd_in.n = 0
       THEN /\ fd_stage' = "done"
            /\ fd_sim' = [rng |-> seed(fd_in.rng, ForceSeed)]
            /\ fd_out' = <<>>
       ELSE /\ fd_stage' = "simulating"
            /\ fd_sim' = [rng |-> Advance(seed(fd_in.rng, ForceSeed), 2 * fd_in.n),
                          iteration |-> 0,
                          repulsion_k |-> ForceRepulsion(fd_in.n, fd_in.canvas[1],
                                              fd_in.canvas[2], ForceMargin, ForceHeaderH),
                          pos |-> ForceStart(fd_in.n, fd_in.canvas[1], fd_in.canvas[2],
                                             ForceMargin, ForceHeaderH)]
            /\ fd_out' = fd_out
    /\ UNCHANGED <<fd_in, notFd>>

\* one iteration of the simulation loop
ForceIteration ==
    /\ fd_stage = "simulating"
    /\ ForceRuns(fd_sim.iteration, ForceIterations)
    /\ fd_sim' = [rng |-> fd_sim.rng,
                  iteration |-> fd_sim.iteration + 1,
                  repulsion_k |-> fd_sim.repulsion_k,
                  pos |-> ForceIterate(fd_sim.pos, fd_in.connections, fd_sim.repulsion_k,
                              ForceTemp(fd_sim.iteration, ForceIterations),
                              fd_in.canvas[1], fd_in.canvas[2], ForceMargin, ForceHeaderH,
                              ForceNodeW, ForceNodeH)]
    /\ UNCHANGED <<fd_stage, fd_in, fd_out, notFd>>

\* the loop has ended: the expansion, the boxes and the final resolve_overlaps
ForceLayout ==
    /\ fd_stage = "simulating"
    /\ ~ForceRuns(fd_sim.iteration, ForceIterations)
    /\ fd_stage' = "done"
    /\ fd_out' = layout_force_directed(
                     ForceCentres(ForceExpand(fd_sim.pos, fd_in.canvas[1], fd_in.canvas[2],
                                              ForceMargin, ForceHeaderH, ForceNodeW,
                                              ForceNodeH)),
                     ForceNodeW, ForceNodeH)
    /\ UNCHANGED <<fd_in, fd_sim, notFd>>

NextForce ==
    \/ ForceBegin
    \/ ForceIteration
    \/ ForceLayout

SpecForce == InitForce /\ [][NextForce]_vars

(***************************************************************************)
(* Frame specification.  Objects live on a heap (reference -> value).  The *)
(* body of a function is the sequence of its statements that make, name    *)
(* or change an object: `new` binds a name to an object made at that line  *)
(* (a literal, a comprehension, the result of a constructor), `bind` binds *)
(* a name to the object another name refers to, `write` changes the object *)
(* a name refers to (item assignment, append, add, augmented assignment),  *)
(* `call` runs the body of another function of the module and binds a name *)
(* to what it returns, and `return` ends the body.  The statements of a    *)
(* loop that do the same to the same objects in every iteration are        *)
(* written once, and only if the loop runs at all: a write with the value  *)
(* the object holds when the loop ends, a new object as the last iteration *)
(* makes it.  The loop of layout_layered is written layer by layer, and a  *)
(* statement under a condition is part of the body only when the condition *)
(* holds.  An object reached through an argument (the node list of a       *)
(* layer, a box of the working copy) counts as the object it is part of.   *)
(* fr_before keeps the heap of the call's start.                           *)
(***************************************************************************)
\* the object made in function fn at `line` and first named `name`
Ref(fn, name, line) == <<fn, name, line>>
\* an object the caller passes
Passed(name) == Ref("caller", name, 0)
NoRef == Ref("none", "none", 0)

Store(heap, ref, value) ==
    [r \in (DOMAIN heap) \cup {ref} |-> IF r = ref THEN value ELSE heap[r]]
Bound(env, name, ref) ==
    [n \in (DOMAIN env) \cup {name} |-> IF n = name THEN ref ELSE env[n]]

Statement(op, name, line, source, value) ==
    [op |-> op, name |-> name, line |-> line, source |-> source, value |-> value]
New(name, line, value) == Statement("new", name, line, name, value)
Bind(name, source) == Statement("bind", name, 0, source, <<>>)
Write(name, value) == Statement("write", name, 0, name, value)
\* name = fn(...): arguments maps the parameters of fn to the names passed
Invoke(name, fn, arguments, body) ==
    Statement("call", name, 0, fn, [arguments |-> arguments, body |-> body])
Finish(name) == Statement("return", name, 0, name, <<>>)

\* a call in progress: the heap, the objects its names refer to, what it returned
Entered(heap, parameters) ==
    [heap |-> heap, env |-> [n \in parameters |-> Passed(n)], ret |-> NoRef]
Held(fr, name) == fr.heap[fr.env[name]]

\* pos = {nid: list(bbox) ...}: the boxes resolve_overlaps pushes around
WorkingCopy_Alias(source, value) == Bind("pos", source)
WorkingCopy(source, value) == New("pos", 795, value)

\* resolve_overlaps, called with the map `positions`
resolve_overlaps_body(positions, padding, max_iterations, canvas_w, canvas_h) ==
    <<New("ids", 789, IdSeq(Len(positions)))>>
        \o (IF Len(positions) < 2
            THEN <<Finish("positions")>>
            ELSE <<WorkingCopy("positions", positions)>>
                     \o (IF max_iterations < 1 THEN <<>>
                         ELSE <<Bind("a", "pos"),
                                Bind("b", "pos"),
                                Write("a", ResolveLoop(positions, 0, FALSE, padding,
                                                       max_iterations, canvas_w, canvas_h).pos),
                                Write("b", ResolveLoop(positions, 0, FALSE, padding,
                                                       max_iterations, canvas_w, canvas_h).pos)>>)
                     \o <<New("return", 843, ResolveLoop(positions, 0, FALSE, padding,
                                                         max_iterations, canvas_w, canvas_h).pos),
                          Finish("return")>>)

RECURSIVE Exec(_, _, _, _)
\* one statement of function fn
Step(fn, s, fr) ==
    CASE s.op = "new" ->
             [heap |-> Store(fr.heap, Ref(fn, s.name, s.line), s.value),
              env |-> Bound(fr.env, s.name, Ref(fn, s.name, s.line)), ret |-> fr.ret]
      [] s.op = "bind" ->
             [heap |-> fr.heap, env |-> Bound(fr.env, s.name, fr.env[s.source]),
              ret |-> fr.ret]
      [] s.op = "write" ->
             [heap |-> Store(fr.heap, fr.env[s.name], s.value), env |-> fr.env,
              ret |-> fr.ret]
      [] s.op = "call" ->
             LET callee == Exec(s.source, s.value.body, 1,
                                [heap |-> fr.heap,
                                 env |-> [p \in DOMAIN s.value.arguments |->
                                             fr.env[s.value.arguments[p]]],
                                 ret |-> NoRef])
             IN  [heap |-> callee.heap, env |-> Bound(fr.env, s.name, callee.ret),
                  ret |-> fr.ret]
      [] s.op = "return" ->
             [heap |-> fr.heap, env |-> fr.env, ret |-> fr.env[s.name]]
\* the statements of body from the k-th on
Exec(fn, body, k, fr) ==
    IF k > Len(body) THEN fr ELSE Exec(fn, body, k + 1, Step(fn, body[k], fr))

\* The parameters of a call by the names the caller passes
Arguments(parameter, name) == [p \in {parameter} |-> name]

measure_content_heights_body(nodes, is_header_style, is_pipeline, min_h, max_h) ==
    <<New("heights", 102, EmptyMap),
      Write("heights", measure_content_heights(nodes, is_header_style, is_pipeline, min_h,
                                               max_h)),
      Finish("heights")>>

\* layer_nodes of a layer: for each of its ids that names a node, in the order
\* of the ids, the node that nodes_by_id holds for it
LayerNodes(node_ids, nodes) ==
    SubSeq([k \in 1..Len(SelectSeq(node_ids, LAMBDA nid : nid \in NodeIdSet(nodes))) |->
               NodeById(nodes, SelectSeq(node_ids, LAMBDA nid : nid \in NodeIdSet(nodes))[k])],
           1, Len(SelectSeq(node_ids, LAMBDA nid : nid \in NodeIdSet(nodes))))
\* max_node_h of layout_layered
LayerMaxNodeH(n_layers, canvas_h, margin, header_h) ==
    Max(70, Min(220, (canvas_h - header_h - margin) \div n_layers - 45 - 16))
RECURSIVE LayerLoop(_, _, _, _, _, _)
\* the statements of the loop over the layers, from layer li on: a layer without
\* ids is skipped, one whose ids name no node is not measured
LayerLoop(layers, li, nodes, canvas_h, margin, header_h) ==
    IF li > Len(layers) THEN <<>>
    ELSE (IF Len(layers[li]) = 0 THEN <<>>
          ELSE <<New("layer_nodes", 173, LayerNodes(layers[li], nodes))>>
                  \o (IF LayerNodes(layers[li], nodes) = <<>> THEN <<>>
                      ELSE <<Invoke("measured", "measure_content_heights",
                                  Arguments("nodes", "layer_nodes"),
                                  measure_content_heights_body(
                                      LayerNodes(layers[li], nodes), TRUE, FALSE, 70,
                                      LayerMaxNodeH(Len(layers), canvas_h, margin,
                                                    header_h)))>>))
            \o LayerLoop(layers, li + 1, nodes, canvas_h, margin, header_h)

layout_layered_body(layers, nodes, canvas_w, canvas_h, margin, header_h) ==
    <<New("positions", 133, EmptyMap)>>
        \o (IF Len(layers) = 0
            THEN <<Finish("positions")>>
            ELSE <<New("nodes_by_id", 145, [id \in NodeIdSet(nodes) |-> NodeById(nodes, id)]),
                   Bind("node_ids", "layers")>>
                     \o LayerLoop(layers, 1, nodes, canvas_h, margin, header_h)
                     \o <<Write("positions", layout_layered(layers, nodes, canvas_w,
                                                            canvas_h, margin, header_h)),
                          Finish("positions")>>)

layout_flow_horizontal_body(node_ids, canvas_w, canvas_h, margin, header_h) ==
    <<New("positions", 213, EmptyMap)>>
        \o (IF Len(node_ids) = 0
            THEN <<Finish("positions")>>
            ELSE <<Write("positions", layout_flow_horizontal(node_ids, canvas_w, canvas_h,
                                                             margin, header_h, NoHeights)),
                   Finish("positions")>>)

layout_flow_vertical_body(node_ids, canvas_w, canvas_h, margin, header_h) ==
    <<New("positions", 258, EmptyMap)>>
        \o (IF Len(node_ids) = 0
            THEN <<Finish("positions")>>
            ELSE <<Write("positions", layout_flow_vertical(node_ids, canvas_w, canvas_h,
                                                           margin, header_h)),
                   Finish("positions")>>)

\* layout_grid with nodes passed: the rows are as high as their content
layout_grid_body(node_ids, nodes, canvas_w, canvas_h, cols, margin, header_h, row_gap, col_gap, footer_h) ==
    <<New("positions", 294, EmptyMap)>>
        \o (IF Len(node_ids) = 0
            THEN <<Finish("positions")>>
            ELSE IF Len(nodes) = 0
            THEN <<Write("positions", layout_grid(node_ids, canvas_w, canvas_h, cols, margin,
                                                  header_h, row_gap, col_gap, footer_h,
                                                  NoHeights)),
                   Finish("positions")>>
            ELSE <<Invoke("content_heights", "measure_content_heights",
                        Arguments("nodes", "nodes"),
                        measure_content_heights_body(nodes, TRUE, FALSE, 70, 250)),
                   New("row_heights", 311, <<>>),
                   New("row_node_ids", 313,
                       GridRowIds(node_ids, GridRows(Len(node_ids), cols),
                                  GridCols(Len(node_ids), cols))),
                   Write("row_heights",
                         GridRowHeights(measure_content_heights(nodes, TRUE, FALSE, 70, 250),
                                        node_ids, GridRows(Len(node_ids), cols),
                                        GridCols(Len(node_ids), cols)))>>
                     \o (IF GridRowsScaled(
                                GridRowHeights(
                                    measure_content_heights(nodes, TRUE, FALSE, 70, 250),
                                    node_ids, GridRows(Len(node_ids), cols),
                                    GridCols(Len(node_ids), cols)),
                                canvas_h - header_h - footer_h)
                         THEN <<New("row_heights", 325,
                                    GridFitRows(
                                        GridRowHeights(
                                            measure_content_heights(nodes, TRUE, FALSE, 70,
                                                                    250),
                                            node_ids, GridRows(Len(node_ids), cols),
                                            GridCols(Len(node_ids), cols)),
                                        canvas_h - header_h - footer_h))>>
                         ELSE <<>>)
                     \o <<Write("positions",
                         layout_grid(node_ids, canvas_w, canvas_h, cols, margin, header_h,
                                     row_gap, col_gap, footer_h,
                                     measure_content_heights(nodes, TRUE, FALSE, 70, 250))),
                   Finish("positions")>>)

layout_columns_body(groups, canvas_w, canvas_h, margin, header_h) ==
    <<New("positions", 391, EmptyMap)>>
        \o (IF Len(groups) = 0
            THEN <<Finish("positions")>>
            ELSE <<Bind("group", "groups"),
                   Write("positions", layout_columns(groups, canvas_w, canvas_h, margin,
                                                     header_h)),
                   Finish("positions")>>)

layout_radial_body(center_id, outer_ids, canvas_w, canvas_h, header_h) ==
    <<New("positions", 423, EmptyMap),
      Write("positions", layout_radial(center_id, outer_ids, canvas_w, canvas_h, header_h)),
      Finish("positions")>>

\* layout_zone_based returns the pair (positions, zone_rects); its first part is
\* the position map
layout_zone_based_body(zones, canvas_w, canvas_h, margin, header_h, zone_padding) ==
    IF Len(zones) = 0
    THEN <<New("{}", 696, EmptyMap), New("[]", 696, <<>>), Finish("{}")>>
    ELSE <<New("zone_rects", IF Len(zones) <= 3 THEN 707 ELSE 724, <<>>),
           Write("zone_rects", ZoneRects(zones, canvas_w, canvas_h, margin, header_h)),
           New("positions", 737, EmptyMap),
           New("zone_node_map", 738,
               [z \in {zones[i].name : i \in 1..Len(zones)} |-> ZoneMembers(zones, z)]),
           Bind("node_ids_in_zone", "zones"),
           Write("positions", layout_zone_based(zones, canvas_w, canvas_h, margin, header_h,
                                                zone_padding)),
           Finish("positions")>>

\* pos_x and pos_y as one list of points, and back
Points(xs, ys) == [i \in 1..Len(xs) |-> <<xs[i], ys[i]>>]
Coordinate(pos, c) == [i \in 1..Len(pos) |-> pos[i][c]]

\* layout_force_directed up to its simulation loop
force_directed_entry(nodes, connections, canvas_w, canvas_h, margin, header_h) ==
    IF Len(nodes) = 0
    THEN <<New("{}", 543, EmptyMap), Finish("{}")>>
    ELSE <<New("adj", 546, {}),
           Write("adj", UNION {{<<connections[c].from_node, connections[c].to_node>>,
                                <<connections[c].to_node, connections[c].from_node>>} :
                               c \in 1..Len(connections)}),
           New("groups", 557, <<>>),
           Write("groups", <<IdSeq(Len(nodes))>>),
           New("pos_x", 563, [i \in 1..Len(nodes) |-> DZero]),
           New("pos_y", 564, [i \in 1..Len(nodes) |-> DZero]),
           New("g_keys", 565, <<None>>),
           Write("pos_x", Coordinate(ForceStart(Len(nodes), canvas_w, canvas_h, margin,
                                                header_h), 1)),
           Write("pos_y", Coordinate(ForceStart(Len(nodes), canvas_w, canvas_h, margin,
                                                header_h), 2)),
           New("node_ids", 584, [i \in 1..Len(nodes) |-> nodes[i].id]),
           New("id_to_idx", 585, [id \in NodeIdSet(nodes) |-> id - 1])>>

\* one iteration of the loop: terms are the forces of the iteration, moved the
\* points once they are applied
force_directed_iteration(n, terms, moved) ==
    <<New("fx", 593, [i \in 1..n |-> DZero]),
      New("fy", 594, [i \in 1..n |-> DZero]),
      Write("fx", [i \in 1..n |-> ForceOn(terms, i, Len(terms))[1]]),
      Write("fy", [i \in 1..n |-> ForceOn(terms, i, Len(terms))[2]]),
      Write("pos_x", Coordinate(moved, 1)),
      Write("pos_y", Coordinate(moved, 2))>>

\* layout_force_directed after the loop: expanded are the points after the
\* post-processing
force_directed_exit(expanded, node_w, node_h) ==
    (IF Len(expanded) > 1
     THEN <<Write("pos_x", Coordinate(expanded, 1)), Write("pos_y", Coordinate(expanded, 2))>>
     ELSE <<>>)
        \o <<New("positions", 669, EmptyMap),
             Write("positions", ForceBoxes(ForceCentres(expanded), node_w, node_h)),
             Invoke("positions", "resolve_overlaps", Arguments("positions", "positions"),
                  resolve_overlaps_body(ForceBoxes(ForceCentres(expanded), node_w, node_h),
                                        ForcePadding, ResolveDefaultIterations,
                                        ResolveDefaultCanvasW, ResolveDefaultCanvasH)),
             Finish("positions")>>

FrNodeCounts == {0, 1, 3}
FrGroupCounts == {1, 2}
FrCanvasHeights == {DefaultCanvasH, 200}
\* the connections of a scene: every node is connected with the first one; an
\* end that is no node is left out by the simulation
FrConnections(n) == [c \in 1..Max(n - 1, 1) |-> [from_node |-> c + 1, to_node |-> 1]]
FrScene(n, k) ==
    [r \in {Passed(name) : name \in {"node_ids", "outer_ids", "nodes", "connections",
                                     "layers", "groups", "zones"}} |->
        CASE r = Passed("node_ids") -> IdSeq(n)
          [] r = Passed("outer_ids") -> IF n = 0 THEN <<>> ELSE Tail(IdSeq(n))
          [] r = Passed("nodes") -> UniformNodes(n, 1, TRUE)
          [] r = Passed("connections") -> FrConnections(n)
          [] r = Passed("layers") -> Deal(n, k)
          [] r = Passed("groups") -> Deal(n, k)
          [] r = Passed("zones") -> [j \in 1..k |-> [name |-> j, nodes |-> Deal(n, k)[j]]]]
FrHeaps ==
    {FrScene(n, k) : n \in FrNodeCounts, k \in FrGroupCounts}
        \cup {[r \in {Passed("positions")} |-> p] : p \in RoInputs}

\* the call: the function, the objects its names refer to, the iteration of
\* its loop
FrCall(name, env, iteration) == [name |-> name, env |-> env, iteration |-> iteration]

InitFrame ==
    /\ OthersIdle("fr")
    /\ fr_stage = "input"
    /\ fr_fn = FrCall("none", <<>>, 0)
    /\ fr_before \in FrHeaps
    /\ fr_heap = fr_before
    /\ fr_ret = NoRef

\* the call of function fn with the named objects runs its body to the end
FrCalled(fn, parameters, body) ==
    /\ fr_stage' = "done"
    /\ fr_fn' = FrCall(fn, Exec(fn, body, 1, Entered(fr_heap, parameters)).env, 0)
    /\ fr_heap' = Exec(fn, body, 1, Entered(fr_heap, parameters)).heap
    /\ fr_ret' = Exec(fn, body, 1, Entered(fr_heap, parameters)).ret
    /\ UNCHANGED <<fr_before, notFr>>

FrScenePending == fr_stage = "input" /\ Passed("nodes") \in DOMAIN fr_heap

FrResolve ==
    /\ fr_stage = "input"
    /\ Passed("positions") \in DOMAIN fr_heap
    /\ FrCalled("resolve_overlaps", {"positions"},
                resolve_overlaps_body(fr_heap[Passed("positions")], RoPadding, MaxIter,
                                      RoCanvasW, RoCanvasH))

\* layout_grid on the default canvas, where the rows fit, or on a low one,
\* where they are scaled down
FrGrid ==
    /\ FrScenePending
    /\ \E canvas_h \in FrCanvasHeights :
           FrCalled("layout_grid", {"node_ids", "nodes"},
                    layout_grid_body(fr_heap[Passed("node_ids")], fr_heap[Passed("nodes")],
                                     DefaultCanvasW, canvas_h, 3, GridMargin, GridHeaderH,
                                     GridRowGap, GridColGap, GridFooterH))

FrFlowHorizontal ==
    /\ FrScenePending
    /\ FrCalled("layout_flow_horizontal", {"node_ids"},
                layout_flow_horizontal_body(fr_heap[Passed("node_ids")], DefaultCanvasW,
                                            DefaultCanvasH, FlowMargin, FlowHeaderH))

FrFlowVertical ==
    /\ FrScenePending
    /\ FrCalled("layout_flow_vertical", {"node_ids"},
                layout_flow_vertical_body(fr_heap[Passed("node_ids")], DefaultCanvasW,
                                          DefaultCanvasH, FlowMargin, FlowHeaderH))

FrLayered ==
    /\ FrScenePending
    /\ FrCalled("layout_layered", {"layers", "nodes"},
                layout_layered_body(fr_heap[Passed("layers")], fr_heap[Passed("nodes")],
                                    DefaultCanvasW, DefaultCanvasH, LayeredMargin,
                                    LayeredHeaderH))

FrColumns ==
    /\ FrScenePending
    /\ FrCalled("layout_columns", {"groups"},
                layout_columns_body(fr_heap[Passed("groups")], DefaultCanvasW,
                                    DefaultCanvasH, ColumnsMargin, ColumnsHeaderH))

FrRadial ==
    /\ FrScenePending
    /\ Len(fr_heap[Passed("node_ids")]) >= 1
    /\ FrCalled("layout_radial", {"outer_ids"},
                layout_radial_body(Head(fr_heap[Passed("node_ids")]),
                                   fr_heap[Passed("outer_ids")], DefaultCanvasW,
                                   DefaultCanvasH, RadialHeaderH))

FrZoneBased ==
    /\ FrScenePending
    /\ FrCalled("layout_zone_based", {"zones", "nodes", "connections"},
                layout_zone_based_body(fr_heap[Passed("zones")], DefaultCanvasW,
                                       DefaultCanvasH, ZoneMargin, ZoneHeaderH, ZonePadding))

\* the statements of layout_force_directed that ran leave the call in progress
FrRunning(body, iteration) ==
    /\ fr_fn' = FrCall("layout_force_directed",
                       Exec("layout_force_directed", body, 1,
                            [heap |-> fr_heap, env |-> fr_fn.env, ret |-> NoRef]).env,
                       iteration)
    /\ fr_heap' = Exec("layout_force_directed", body, 1,
                       [heap |-> fr_heap, env |-> fr_fn.env, ret |-> NoRef]).heap
    /\ fr_ret' = Exec("layout_force_directed", body, 1,
                      [heap |-> fr_heap, env |-> fr_fn.env, ret |-> NoRef]).ret
    /\ UNCHANGED <<fr_before, notFr>>

\* layout_force_directed is called: with no node it returns, otherwise it
\* reaches its simulation loop
FrForceDirected ==
    /\ FrScenePending
    /\ IF Len(fr_heap[Passed("nodes")]) = 0
       THEN FrCalled("layout_force_directed", {"nodes", "connections"},
                     force_directed_entry(fr_heap[Passed("nodes")],
                                          fr_heap[Passed("connections")], DefaultCanvasW,
                                          DefaultCanvasH, ForceMargin, ForceHeaderH))
       ELSE /\ fr_stage' = "running"
            /\ fr_fn' = FrCall("layout_force_directed",
                   Exec("layout_force_directed",
                        force_directed_entry(fr_heap[Passed("nodes")],
                                             fr_heap[Passed("connections")], DefaultCanvasW,
                                             DefaultCanvasH, ForceMargin, ForceHeaderH),
                        1, Entered(fr_heap, {"nodes", "connections"})).env, 0)
            /\ fr_heap' = Exec("layout_force_directed",
                   force_directed_entry(fr_heap[Passed("nodes")],
                                        fr_heap[Passed("connections")], DefaultCanvasW,
                                        DefaultCanvasH, ForceMargin, ForceHeaderH),
                   1, Entered(fr_heap, {"nodes", "connections"})).heap
            /\ UNCHANGED <<fr_ret, fr_before, notFr>>

\* pos_x, pos_y of the call in progress
FrPoints == Points(fr_heap[fr_fn.env["pos_x"]], fr_heap[fr_fn.env["pos_y"]])
FrRepulsion ==
    ForceRepulsion(Len(fr_heap[Passed("nodes")]), DefaultCanvasW, DefaultCanvasH,
                   ForceMargin, ForceHeaderH)

\* the forces are applied to the points
FrMoved(pos, terms, temp) ==
    force_directed_iteration(Len(pos), terms,
        ForceApply(pos, terms, temp, DefaultCanvasW, DefaultCanvasH, ForceMargin,
                   ForceHeaderH, ForceNodeW, ForceNodeH))

\* one iteration of the simulation loop
FrForceIteration ==
    /\ fr_stage = "running"
    /\ ForceRuns(fr_fn.iteration, ForceIterations)
    /\ fr_stage' = fr_stage
    /\ FrRunning(FrMoved(FrPoints,
                         ForceTerms(FrPoints, fr_heap[Passed("connections")], FrRepulsion),
                         ForceTemp(fr_fn.iteration, ForceIterations)),
                 fr_fn.iteration + 1)

\* the loop has ended: the post-processing, the boxes and the final resolve_overlaps
FrForceReturn ==
    /\ fr_stage = "running"
    /\ ~ForceRuns(fr_fn.iteration, ForceIterations)
    /\ fr_stage' = "done"
    /\ FrRunning(force_directed_exit(
                     ForceExpand(FrPoints, DefaultCanvasW, DefaultCanvasH, ForceMargin,
                                 ForceHeaderH, ForceNodeW, ForceNodeH),
                     ForceNodeW, ForceNodeH),
                 fr_fn.iteration)

NextFrame ==
    \/ FrResolve
    \/ FrGrid
    \/ FrFlowHorizontal
    \/ FrFlowVertical
    \/ FrLayered
    \/ FrColumns
    \/ FrRadial
    \/ FrZoneBased
    \/ FrForceDirected
    \/ FrForceIteration
    \/ FrForceReturn

SpecFrame == InitFrame /\ [][NextFrame]_vars

(***************************************************************************)
(* Scene specification: a scene has nodes 1..n and one or two layers (or   *)
(* zones) whose member lists are any lists of ids, listed nodes or not.    *)
(* Every strategy is called with its default arguments on the default      *)
(* canvas: the id-list strategies receive the ids of all nodes, radial the  *)
(* first id as centre and the others as outer ids, layered, columns and    *)
(* zone-based the member lists.                                            *)
(***************************************************************************)
SceneNodeCounts == 1..MaxBoxes
\* member ids: the nodes and one id that no node carries
SceneIds == 1..(MaxBoxes + 1)
MemberLists == UNION {[1..m -> SceneIds] : m \in 0..2}
SceneGroups == UNION {[1..g -> MemberLists] : g \in 1..2}

InitScene ==
    /\ OthersIdle("sc")
    /\ sc_stage = "input"
    /\ sc_in \in [n : SceneNodeCounts, groups : SceneGroups]
    /\ sc_fn = "none"
    /\ sc_out = EmptyMap

SceneCalled(fn, positions) ==
    /\ sc_stage = "input"
    /\ sc_stage' = "done"
    /\ sc_fn' = fn
    /\ sc_out' = positions
    /\ UNCHANGED <<sc_in, notSc>>

SceneNodes == UniformNodes(sc_in.n, 1, TRUE)
SceneZones == [j \in 1..Len(sc_in.groups) |-> [name |-> j, nodes |-> sc_in.groups[j]]]

SceneGrid ==
    SceneCalled("grid",
        layout_grid(IdSeq(sc_in.n), DefaultCanvasW, DefaultCanvasH, 3, GridMargin, GridHeaderH,
                    GridRowGap, GridColGap, GridFooterH, NoHeights))

SceneFlowHorizontal ==
    SceneCalled("flow_horizontal",
        layout_flow_horizontal(IdSeq(sc_in.n), DefaultCanvasW, DefaultCanvasH,
                               FlowMargin, FlowHeaderH, NoHeights))

SceneFlowVertical ==
    SceneCalled("flow_vertical",
        layout_flow_vertical(IdSeq(sc_in.n), DefaultCanvasW, DefaultCanvasH,
                             FlowMargin, FlowHeaderH))

SceneLayered ==
    SceneCalled("layered",
        layout_layered(sc_in.groups, SceneNodes, DefaultCanvasW, DefaultCanvasH,
                       LayeredMargin, LayeredHeaderH))

SceneColumns ==
    SceneCalled("columns",
        layout_columns(sc_in.groups, DefaultCanvasW, DefaultCanvasH,
                       ColumnsMargin, ColumnsHeaderH))

SceneRadial ==
    SceneCalled("radial",
        layout_radial(1, Tail(IdSeq(sc_in.n)), DefaultCanvasW, DefaultCanvasH,
                      RadialHeaderH))

SceneZoneBased ==
    SceneCalled("zone_based",
        layout_zone_based(SceneZones, DefaultCanvasW, DefaultCanvasH,
                          ZoneMargin, ZoneHeaderH, ZonePadding))

NextScene ==
    \/ SceneGrid
    \/ SceneFlowHorizontal
    \/ SceneFlowVertical
    \/ SceneLayered
    \/ SceneColumns
    \/ SceneRadial
    \/ SceneZoneBased

SpecScene == InitScene /\ [][NextScene]_vars

(***************************************************************************)
(* Fan-out specification: the source box, the targets and the direction    *)
(* are chosen and the exit point of every connection is computed.          *)
(***************************************************************************)
MaxFanOut == 5
\* widths layout_layered gives: 100 at least, 220 at most
FanWidths == {100, 101, 150, 180, 200, 220}
FanBoxes == {Box(x, 200, w, 92) : x \in {60, 61}, w \in FanWidths}
\* k connections to k targets, or with the last one going to the first target again
FanTargets ==
    {IdSeq(k) : k \in 1..MaxFanOut}
        \cup {[i \in 1..k |-> IF i = k THEN 1 ELSE i] : k \in 2..MaxFanOut}

InitFan ==
    /\ OthersIdle("fo")
    /\ fo_stage = "input"
    /\ fo_in \in [from_pos : FanBoxes, siblings : FanTargets, down : BOOLEAN]
    /\ fo_out = <<>>

FanOut ==
    /\ fo_stage = "input"
    /\ fo_stage' = "done"
    /\ fo_out' = ExitPoints(fo_in.from_pos, fo_in.siblings, fo_in.down)
    /\ UNCHANGED <<fo_in, notFo>>

NextFan == FanOut

SpecFan == InitFan /\ [][NextFan]_vars

(***************************************************************************)
(* _auto_crop.  An image is its size and its marks: the pixels that differ *)
(* from the background colour, each with its position and the absolute     *)
(* difference d = <<dr, dg, db>> of its channels (ImageChops.difference);  *)
(* every other pixel has the background colour.                            *)
(***************************************************************************)
Image(width, height, marks) == [width |-> width, height |-> height, marks |-> marks]

\* diff.convert("L"): the ITU-R 601-2 luma transform, in 16-bit fixed point
Luma(d) == (d[1] * 19595 + d[2] * 38470 + d[3] * 7471 + 32768) \div 65536

CropThreshold == 5

\* the pixels diff_binary sets to 255
Content(img) == {m \in img.marks : Luma(m.d) > CropThreshold}

SetMin(S) == CHOOSE v \in S : \A u \in S : v <= u
SetMax(S) == CHOOSE v \in S : \A u \in S : v >= u

\* getbbox(): <<left, upper, right, lower>> of the non-zero pixels, right and
\* lower exclusive; <<>> stands for None
getbbox(pixels) ==
    IF pixels = {} THEN <<>>
    ELSE <<SetMin({m.x : m \in pixels}), SetMin({m.y : m \in pixels}),
           SetMax({m.x : m \in pixels}) + 1, SetMax({m.y : m \in pixels}) + 1>>

\* img.crop((left, upper, right, lower))
crop(img, left, upper, right, lower) ==
    Image(right - left, lower - upper,
          {[x |-> m.x - left, y |-> m.y - upper, d |-> m.d] :
              m \in {k \in img.marks :
                        /\ left <= k.x /\ k.x < right
                        /\ upper <= k.y /\ k.y < lower}})

\* saved_area < total_area * 0.15.  Both areas are integers below 2^53 and
\* 3 * total_area / 20 is either an integer, which the rounded product never
\* exceeds and never misses by 1, or at least 1/20 away from one, so the
\* comparison with the double is the comparison of the integers.
TooSmallSaving(saved_area, total_area) == 20 * saved_area < 3 * total_area

auto_crop_AlwaysCommit(img, margin) ==
    LET content_bbox == getbbox(Content(img))
    IN  IF content_bbox = <<>> THEN img
        ELSE crop(img, 0, 0, Min(img.width, content_bbox[3] + margin),
                  Min(img.height, content_bbox[4] + margin))
auto_crop(img, margin) ==
    LET content_bbox == getbbox(Content(img))
        new_w == Min(img.width, content_bbox[3] + margin)
        new_h == Min(img.height, content_bbox[4] + margin)
        saved_area == (img.width * img.height) - (new_w * new_h)
        total_area == img.width * img.height
    IN  IF content_bbox = <<>> THEN img
        ELSE IF TooSmallSaving(saved_area, total_area) THEN img
        ELSE crop(img, 0, 0, new_w, new_h)

(***************************************************************************)
(* Auto-crop specification: an image with up to MaxMarks marks and a       *)
(* margin are chosen and _auto_crop is applied.                            *)
(***************************************************************************)
MaxMarks == 2
\* 1164 is the last column whose content still saves 15% with margin 25
CropXs == {0, 1164, 1165, 1399}
CropYs == {0, 899}
\* differences of luma 0, 5 and 6
CropDiffs == {<<0, 0, 1>>, <<0, 0, 40>>, <<6, 6, 6>>}
CropMargins == {20, 25}
CropPixels == [x : CropXs, y : CropYs, d : CropDiffs]
\* the sets of at most k pixels at different positions
RECURSIVE MarkSets(_)
MarkSets(k) ==
    IF k = 0 THEN {{}}
    ELSE LET fewer == MarkSets(k - 1)
         IN  fewer \cup
                 UNION {{ms \cup {p} :
                            p \in {q \in CropPixels : \A m \in ms : m.x # q.x \/ m.y # q.y}} :
                        ms \in fewer}
CropMarks == MarkSets(MaxMarks)

InitCrop ==
    /\ OthersIdle("ac")
    /\ ac_stage = "input"
    /\ ac_in \in [img : {Image(DefaultCanvasW, DefaultCanvasH, ms) : ms \in CropMarks},
                  margin : CropMargins]
    /\ ac_out = <<>>

AutoCrop ==
    /\ ac_stage = "input"
    /\ ac_stage' = "done"
    /\ ac_out' = auto_crop(ac_in.img, ac_in.margin)
    /\ UNCHANGED <<ac_in, notAc>>

NextCrop == AutoCrop

SpecCrop == InitCrop /\ [][NextCrop]_vars

(***************************************************************************)
(* Connections whose endpoints are not nodes.  A connection is a record    *)
(* [from_node, to_node, label]; an arrow drawn is [from_node, to_node,     *)
(* label], its label <<>> when it is drawn without one.                    *)
(***************************************************************************)
Arrow(from_node, to_node, label) ==
    [from_node |-> from_node, to_node |-> to_node, label |-> label]

\* pipeline, guidebook: the label of the first connection that leaves node_id
arrow_label(connections, node_id) ==
    IF \E c \in 1..Len(connections) : connections[c].from_node = node_id
    THEN connections[CHOOSE c \in 1..Len(connections) :
             /\ connections[c].from_node = node_id
             /\ \A b \in 1..(c - 1) : connections[b].from_node # node_id].label
    ELSE <<>>

\* pipeline, guidebook: one numbered arrow from every stage to the next
pipeline_arrows(nodes, connections) ==
    [i \in 1..(Len(nodes) - 1) |->
        Arrow(nodes[i].id, nodes[i + 1].id, arrow_label(connections, nodes[i].id))]

\* architecture: the connections whose two endpoints have a position
RECURSIVE architecture_arrows(_, _)
architecture_arrows(positions, connections) ==
    IF connections = <<>> THEN <<>>
    ELSE LET conn == Head(connections)
             rest == architecture_arrows(positions, Tail(connections))
         IN  IF conn.from_node \in DOMAIN positions /\ conn.to_node \in DOMAIN positions
             THEN <<Arrow(conn.from_node, conn.to_node, conn.label)>> \o rest
             ELSE rest

(***************************************************************************)
(* Specification: a scene of up to MaxBoxes nodes and up to MaxConns       *)
(* connections, whose endpoints are node ids or the id after the last      *)
(* node, which no node carries; either renderer draws its connections.     *)
(***************************************************************************)
MaxConns == 2
ConnLabels == [c \in 1..(MaxConns + 1) |-> <<"c", c>>]
ConnLists(n) ==
    UNION {{[c \in 1..k |-> [from_node |-> ends[c][1], to_node |-> ends[c][2],
                             label |-> ConnLabels[c]]] :
               ends \in [1..k -> (1..(n + 1)) \X (1..(n + 1))]} : k \in 0..MaxConns}

InitDangling ==
    /\ OthersIdle("dg")
    /\ dg_stage = "input"
    /\ \E n \in 1..MaxBoxes :
           dg_in \in [nodes : {UniformNodes(n, 1, TRUE)}, connections : ConnLists(n)]
    /\ dg_out = <<>>

RenderPipeline ==
    /\ dg_stage = "input"
    /\ dg_stage' = "pipeline"
    /\ dg_out' = pipeline_arrows(dg_in.nodes, dg_in.connections)
    /\ UNCHANGED <<dg_in, notDg>>

\* every node is listed in a layer, so layout_layered places every node
RenderArchitecture ==
    /\ dg_stage = "input"
    /\ dg_stage' = "architecture"
    /\ dg_out' = architecture_arrows(
                     layout_layered(<<IdSeq(Len(dg_in.nodes))>>, dg_in.nodes,
                                    DefaultCanvasW, DefaultCanvasH,
                                    ArchitectureMargin, ArchitectureHeaderH),
                     dg_in.connections)
    /\ UNCHANGED <<dg_in, notDg>>

NextDangling == RenderPipeline \/ RenderArchitecture

SpecDangling == InitDangling /\ [][NextDangling]_vars


(***************************************************************************)
(* Pipeline renderer, guidebook style: the stages stand side by side, each *)
(* drawn by draw_node_with_header as a card with a header band.            *)
(***************************************************************************)
PipelineMargin == 50
PipelineHeaderH == 80
PipelineSubtitleHeaderH == 100
PipelineArrowGap == 55
PipelineMinH == 80
PipelineMaxH == 350

\* stage_w
PipelineStageW(n, width, margin) ==
    ((width - margin * 2) - (n - 1) * PipelineArrowGap) \div n

\* stage_h
PipelineStageH(nodes, height, margin, header_h) ==
    Min(HeightsMax(measure_content_heights(nodes, TRUE, TRUE, PipelineMinH, PipelineMaxH)),
        height - header_h - margin - 25)

\* the bbox (x0, y0, x1, y1) given to draw_node_with_header for each stage
PipelineCards(nodes, width, height, margin, header_h) ==
    LET n == Len(nodes)
        stage_w == PipelineStageW(n, width, margin)
        stage_h == PipelineStageH(nodes, height, margin, header_h)
        cy == header_h + stage_h \div 2 + 10
    IN  [i \in 1..n |->
            <<margin + (i - 1) * (stage_w + PipelineArrowGap), cy - stage_h \div 2,
              margin + (i - 1) * (stage_w + PipelineArrowGap) + stage_w,
              (cy - stage_h \div 2) + stage_h>>]

\* ImageDraw.rectangle and rounded_rectangle reject a box whose x1 is less
\* than x0 or whose y1 is less than y0 with a ValueError
RectangleAccepted(xy) == xy[3] >= xy[1] /\ xy[4] >= xy[2]

\* the three rectangles draw_node_with_header draws first: the card, the header
\* band and the strip that flattens the band's lower corners
HeaderCardRectangles(bbox) ==
    LET x0 == bbox[1]
        y0 == bbox[2]
        x1 == bbox[3]
        y1 == bbox[4]
        radius == 10
        header_h == Max(26, Min(34, (y1 - y0) \div 4))
    IN  <<bbox,
          <<x0 + 1, y0 + 1, x1 - 1, y0 + header_h>>,
          <<x0 + 1, y0 + header_h - radius, x1 - 1, y0 + header_h>>>>

\* the rendering of the stages: the cards and whether a rectangle was rejected
render_pipeline(nodes, width, height, subtitle) ==
    LET header_h == IF subtitle THEN PipelineSubtitleHeaderH ELSE PipelineHeaderH
        cards == IF Len(nodes) = 0 THEN <<>>
                 ELSE PipelineCards(nodes, width, height, PipelineMargin, header_h)
    IN  [cards |-> cards,
         raised |-> \E i \in 1..Len(cards) :
                        \E r \in 1..3 : ~RectangleAccepted(HeaderCardRectangles(cards[i])[r])]

(***************************************************************************)
(* Rendering specification: a pipeline scene of up to MaxNodes stages, its *)
(* descriptions, the canvas and the subtitle are chosen; it is rendered.   *)
(***************************************************************************)
InitRender ==
    /\ OthersIdle("rp")
    /\ rp_stage = "input"
    /\ rp_in \in [n : 0..MaxNodes, desc : {NoDesc, 1}, canvas : CanvasSizes,
                  subtitle : BOOLEAN]
    /\ rp_out = <<>>

RenderStages ==
    /\ rp_stage = "input"
    /\ rp_stage' = "done"
    /\ rp_out' = render_pipeline(UniformNodes(rp_in.n, rp_in.desc, TRUE),
                                 rp_in.canvas[1], rp_in.canvas[2], rp_in.subtitle)
    /\ UNCHANGED <<rp_in, notRp>>

NextRender == RenderStages

SpecRender == InitRender /\ [][NextRender]_vars

(***************************************************************************)
(* The numbered arrows of the architecture renderer (guidebook) and of the *)
(* animator's path extraction.  layers is a sequence of id lists; an arrow *)
(* is [from_node, to_node, start, end, number].                            *)
(***************************************************************************)
\* node_layer_map.get(nid, 0): the last layer that lists nid, counted from 0
NodeLayer(layers, nid) ==
    IF \E li \in 1..Len(layers) : \E k \in 1..Len(layers[li]) : layers[li][k] = nid
    THEN (CHOOSE li \in 1..Len(layers) :
              /\ \E k \in 1..Len(layers[li]) : layers[li][k] = nid
              /\ \A lj \in (li + 1)..Len(layers) :
                     \A k \in 1..Len(layers[lj]) : layers[lj][k] # nid) - 1
    ELSE 0

\* outgoing_down[nid] (down = TRUE) or outgoing_up[nid]: the targets of the
\* connections that leave nid for a lower or a higher layer, in connection order
RECURSIVE Outgoing(_, _, _, _)
Outgoing(layers, connections, nid, down) ==
    IF connections = <<>> THEN <<>>
    ELSE LET conn == Head(connections)
             fl == NodeLayer(layers, conn.from_node)
             tl == NodeLayer(layers, conn.to_node)
             rest == Outgoing(layers, Tail(connections), nid, down)
         IN  IF conn.from_node = nid /\ (IF down THEN fl < tl ELSE fl > tl)
             THEN <<conn.to_node>> \o rest
             ELSE rest

\* start and end of the arrow of one connection whose endpoints are placed
ArrowEnds(positions, layers, connections, conn) ==
    LET from_pos == positions[conn.from_node]
        to_pos == positions[conn.to_node]
        from_layer == NodeLayer(layers, conn.from_node)
        to_layer == NodeLayer(layers, conn.to_node)
        from_cx == BoxX(from_pos) + BoxW(from_pos) \div 2
        to_cx == BoxX(to_pos) + BoxW(to_pos) \div 2
    IN  IF from_layer < to_layer
        THEN <<ExitPoint(from_pos, Outgoing(layers, connections, conn.from_node, TRUE),
                         conn.to_node, TRUE),
               <<to_cx, BoxY(to_pos)>>>>
        ELSE IF from_layer > to_layer
        THEN <<ExitPoint(from_pos, Outgoing(layers, connections, conn.from_node, FALSE),
                         conn.to_node, FALSE),
               <<to_cx, BoxY(to_pos) + BoxH(to_pos)>>>>
        ELSE IF from_cx < to_cx
        THEN <<<<BoxX(from_pos) + BoxW(from_pos), BoxY(from_pos) + BoxH(from_pos) \div 2>>,
               <<BoxX(to_pos), BoxY(to_pos) + BoxH(to_pos) \div 2>>>>
        ELSE <<<<BoxX(from_pos), BoxY(from_pos) + BoxH(from_pos) \div 2>>,
               <<BoxX(to_pos) + BoxW(to_pos), BoxY(to_pos) + BoxH(to_pos) \div 2>>>>

\* the arrows drawn for connections[ci..], numbered ci, ci + 1, ...
RECURSIVE NumberedFrom(_, _, _, _)
NumberedFrom(positions, layers, connections, ci) ==
    IF ci > Len(connections) THEN <<>>
    ELSE LET conn == connections[ci]
             rest == NumberedFrom(positions, layers, connections, ci + 1)
         IN  IF conn.from_node \in DOMAIN positions /\ conn.to_node \in DOMAIN positions
             THEN <<[from_node |-> conn.from_node, to_node |-> conn.to_node,
                     start |-> ArrowEnds(positions, layers, connections, conn)[1],
                     end |-> ArrowEnds(positions, layers, connections, conn)[2],
                     number |-> ci]>> \o rest
             ELSE rest

numbered_arrows(positions, layers, connections) ==
    NumberedFrom(positions, layers, connections, 1)

(***************************************************************************)
(* Specification: the nodes of a scene are dealt into two layers, up to    *)
(* MaxConns connections join them, and one connection with an endpoint     *)
(* that is not a node is put in front of them or behind them.  The arrows  *)
(* are drawn for the scene without and with that connection.               *)
(***************************************************************************)
\* the connections between nodes only
NodeConnLists(n) ==
    UNION {{[c \in 1..k |-> [from_node |-> ends[c][1], to_node |-> ends[c][2],
                             label |-> ConnLabels[c]]] :
               ends \in [1..k -> (1..n) \X (1..n)]} : k \in 1..MaxConns}
DanglingConns(n) ==
    {[from_node |-> a, to_node |-> b, label |-> <<>>] :
        a \in 1..(n + 1), b \in {n + 1}}
            \cup {[from_node |-> n + 1, to_node |-> b, label |-> <<>>] : b \in 1..n}

InitAdded ==
    /\ OthersIdle("dl")
    /\ dl_stage = "input"
    /\ \E n \in 2..MaxBoxes :
           dl_in \in [n : {n}, connections : NodeConnLists(n), dangling : DanglingConns(n),
                      in_front : BOOLEAN]
    /\ dl_out = <<>>

DrawBoth ==
    /\ dl_stage = "input"
    /\ dl_stage' = "done"
    /\ LET layers == Deal(dl_in.n, 2)
           positions == layout_layered(layers, UniformNodes(dl_in.n, 1, TRUE),
                                       DefaultCanvasW, DefaultCanvasH,
                                       ArchitectureMargin, ArchitectureHeaderH)
           added == IF dl_in.in_front THEN <<dl_in.dangling>> \o dl_in.connections
                    ELSE Append(dl_in.connections, dl_in.dangling)
       IN  dl_out' = [without |-> numbered_arrows(positions, layers, dl_in.connections),
                      with |-> numbered_arrows(positions, layers, added)]
    /\ UNCHANGED <<dl_in, notDl>>

NextAdded == DrawBoth

SpecAdded == InitAdded /\ [][NextAdded]_vars

(***************************************************************************)
(* The background pill of a connection label.  A colour "#RRGGBB" is the   *)
(* sequence of its six hexadecimal digits, each a number in 0..15.         *)
(***************************************************************************)
Hex(hi1, lo1, hi2, lo2, hi3, lo3) == <<hi1, lo1, hi2, lo2, hi3, lo3>>

\* int(h[i:i+2], 16) for i in (0, 2, 4)
hex_to_rgb(h) == <<16 * h[1] + h[2], 16 * h[3] + h[4], 16 * h[5] + h[6]>>

\* 0.299 * R + 0.587 * G + 0.114 * B in double precision, summed left to right
luminance(color_rgb) ==
    DAdd(DAdd(DMul(DDiv(DFromInt(299), DFromInt(1000)), DFromInt(color_rgb[1])),
              DMul(DDiv(DFromInt(587), DFromInt(1000)), DFromInt(color_rgb[2]))),
         DMul(DDiv(DFromInt(114), DFromInt(1000)), DFromInt(color_rgb[3])))

LightBgThreshold == 60

is_light_bg(color) == DCmp(luminance(hex_to_rgb(color)), DFromInt(LightBgThreshold)) = 1

PillWhite == Hex(15, 15, 15, 15, 15, 15)     \* "#FFFFFF"
PillDark == Hex(0, 15, 1, 7, 2, 10)              \* "#0F172A"
PillDarkOutline == Hex(3, 3, 4, 1, 5, 5)         \* "#334155"

\* the pill _draw_label_on_path draws behind the label of a line of this colour
label_pill(color) ==
    IF is_light_bg(color)
    THEN [fill |-> PillWhite, outline |-> color, text |-> color]
    ELSE [fill |-> PillDark, outline |-> PillDarkOutline, text |-> color]

\* line colours: the ones the source names, and a grid around the threshold
Blue == Hex(2, 11, 7, 13, 14, 9)                 \* "#2B7DE9"
Orange == Hex(14, 8, 8, 3, 3, 10)                \* "#E8833A"
Green == Hex(4, 12, 10, 15, 5, 0)                \* "#4CAF50"
MutedGray == Hex(9, 4, 10, 3, 11, 8)             \* "#94A3B8"
PillChannels == {<<0, 0>>, <<0, 15>>, <<2, 7>>, <<3, 12>>, <<5, 7>>}
LineColors ==
    {Blue, Orange, Green, MutedGray, PillDark, PillDarkOutline}
        \cup {Hex(r[1], r[2], g[1], g[2], b[1], b[2]) :
                 r \in PillChannels, g \in PillChannels, b \in PillChannels}

InitPill ==
    /\ OthersIdle("lp")
    /\ lp_stage = "input"
    /\ lp_in \in LineColors
    /\ lp_out = <<>>

DrawLabel ==
    /\ lp_stage = "input"
    /\ lp_stage' = "done"
    /\ lp_out' = label_pill(lp_in)
    /\ UNCHANGED <<lp_in, notLp>>

NextPill == DrawLabel

SpecPill == InitPill /\ [][NextPill]_vars

(***************************************************************************)
(* The static renderers and the animator.  A scene is [type, n, subtitle,  *)
(* desc]: n nodes with ids 1..n that all carry a description of desc lines *)
(* and an icon, no explicit connection, and for the architecture type the  *)
(* nodes dealt over at most two layers.  The renderers are the guidebook   *)
(* ones; what is kept of a rendering is the box of every node and the      *)
(* <<start, end>> of every arrow.                                          *)
(***************************************************************************)
get_node_right(pos) == <<pos[1] + pos[3], pos[2] + (pos[4] \div 2)>>
get_node_left(pos) == <<pos[1], pos[2] + (pos[4] \div 2)>>

AnimLayers(scene) == Deal(scene.n, Min(scene.n, 2))
AnimNodes(scene) == UniformNodes(scene.n, scene.desc, TRUE)

\* cols of the process renderers and of the animator
process_cols(n) == IF n > 4 THEN 3 ELSE IF n > 2 THEN 2 ELSE 1
\* cols of the infographic renderers
infographic_cols(n) == IF n >= 6 THEN 3 ELSE IF n >= 3 THEN 2 ELSE 1

\* positions of render_architecture
architecture_positions(scene, width, height) ==
    layout_layered(AnimLayers(scene), AnimNodes(scene), width, height, ArchitectureMargin,
                   IF scene.subtitle THEN ArchitectureSubtitleHeaderH
                   ELSE ArchitectureHeaderH)

\* positions of render_flowchart
flowchart_positions(scene, width, height) ==
    layout_flow_horizontal(IdSeq(scene.n), width, height, FlowMargin,
                           IF scene.subtitle THEN 100 ELSE 80, NoHeights)

\* positions of render_process, which passes the nodes to layout_grid
process_positions(scene, width, height) ==
    layout_grid(IdSeq(scene.n), width, height, process_cols(scene.n), GridMargin,
                IF scene.subtitle THEN 100 ELSE 80, GridRowGap, GridColGap, GridFooterH,
                measure_content_heights(AnimNodes(scene), TRUE, FALSE, 70, 250))

\* positions of render_infographic
infographic_positions(scene, width, height) ==
    layout_grid(IdSeq(scene.n), width, height, infographic_cols(scene.n), GridMargin,
                IF scene.subtitle THEN 100 ELSE 80, GridRowGap, GridColGap, GridFooterH, NoHeights)

\* the stage cards of render_pipeline as boxes (x, y, w, h)
pipeline_positions(scene, width, height) ==
    LET cards == PipelineCards(AnimNodes(scene), width, height, PipelineMargin,
                               IF scene.subtitle THEN PipelineSubtitleHeaderH
                               ELSE PipelineHeaderH)
    IN  [i \in 1..scene.n |->
            Box(cards[i][1], cards[i][2], cards[i][3] - cards[i][1], cards[i][4] - cards[i][2])]

\* RENDERERS[data.type]: the box of every node as the renderer lays it out
render_positions(scene, width, height) ==
    CASE scene.type = "architecture" -> architecture_positions(scene, width, height)
      [] scene.type = "flowchart" -> flowchart_positions(scene, width, height)
      [] scene.type \in {"process", "timeline"} -> process_positions(scene, width, height)
      [] scene.type = "infographic" -> infographic_positions(scene, width, height)
      [] scene.type = "pipeline" -> pipeline_positions(scene, width, height)

\* the arrow between consecutive nodes i and i + 1 of the process renderer
process_arrow(positions, i) ==
    LET p1 == positions[i]
        p2 == positions[i + 1]
        cx1 == p1[1] + (p1[3] \div 2)
        cy1 == p1[2] + (p1[4] \div 2)
        cx2 == p2[1] + (p2[3] \div 2)
        cy2 == p2[2] + (p2[4] \div 2)
        is_same_row == AbsDiff(cy1, cy2) < p1[4] \div 2
    IN  IF is_same_row THEN <<<<p1[1] + p1[3], cy1>>, <<p2[1], cy2>>>>
        ELSE <<<<cx1, p1[2] + p1[4]>>, <<cx2, p2[2]>>>>

\* the arrow that leaves stage i of the pipeline renderer
pipeline_arrow(positions, i) ==
    LET ax_start == positions[i][1] + positions[i][3] + 5
        ay == positions[i][2] + (positions[i][4] \div 2)
    IN  <<<<ax_start, ay>>, <<ax_start + PipelineArrowGap - 10, ay>>>>

\* the arrows the renderer of the scene draws; without explicit connections
\* the architecture and infographic renderers draw none
render_arrows(scene, positions) ==
    CASE scene.type \in {"architecture", "infographic"} -> <<>>
      [] scene.type = "flowchart" ->
            [i \in 1..(scene.n - 1) |->
                <<get_node_right(positions[i]), get_node_left(positions[i + 1])>>]
      [] scene.type \in {"process", "timeline"} ->
            [i \in 1..(scene.n - 1) |-> process_arrow(positions, i)]
      [] scene.type = "pipeline" ->
            [i \in 1..(scene.n - 1) |-> pipeline_arrow(positions, i)]

\* InfographicAnimator._compute_positions
compute_positions(scene, width, height) ==
    LET margin == 50
        header_h == IF scene.subtitle THEN 100 ELSE 80
    IN  IF scene.type = "architecture" /\ Len(AnimLayers(scene)) > 0
        THEN layout_layered(AnimLayers(scene), AnimNodes(scene), width, height,
                            margin, header_h)
        ELSE IF scene.type \in {"process", "infographic", "timeline"}
        THEN layout_grid(IdSeq(scene.n), width, height, process_cols(scene.n), GridMargin,
                         header_h, GridRowGap, GridColGap, GridFooterH, NoHeights)
        ELSE IF scene.type \in {"flowchart", "pipeline", "rag_pipeline", "multi_agent"}
        THEN layout_flow_horizontal(IdSeq(scene.n), width, height, FlowMargin, header_h, NoHeights)
        ELSE layout_grid(IdSeq(scene.n), width, height, process_cols(scene.n), GridMargin,
                         header_h, GridRowGap, GridColGap, GridFooterH, NoHeights)

\* InfographicAnimator._extract_sequential_paths: the waypoints of every path
extract_sequential_paths(scene, positions) ==
    LET is_grid == scene.type \in {"process", "infographic", "timeline"}
        cols == IF is_grid THEN process_cols(scene.n) ELSE scene.n
    IN  [i \in 1..(scene.n - 1) |->
            LET p1 == positions[i]
                p2 == positions[i + 1]
                row1 == (i - 1) \div cols
                row2 == i \div cols
            IN  IF is_grid /\ row1 # row2
                THEN <<<<p1[1] + (p1[3] \div 2), p1[2] + p1[4]>>,
                       <<p2[1] + (p2[3] \div 2), p2[2]>>>>
                ELSE <<<<p1[1] + p1[3], p1[2] + (p1[4] \div 2)>>,
                       <<p2[1], p2[2] + (p2[4] \div 2)>>>>]

\* InfographicAnimator._extract_arrow_paths for a scene without connections
extract_arrow_paths(scene, positions) ==
    IF DOMAIN positions = {} THEN <<>>
    ELSE IF scene.n > 1 THEN extract_sequential_paths(scene, positions)
    ELSE <<>>

SceneTypes == {"architecture", "flowchart", "process", "timeline", "infographic", "pipeline"}
AnimNodeCounts == 1..(MaxBoxes + 3)
Scenes == [type : SceneTypes, n : AnimNodeCounts, subtitle : BOOLEAN, desc : {NoDesc, 1}]

InitAnimate ==
    /\ OthersIdle("am")
    /\ am_stage = "input"
    /\ am_in \in [scene : Scenes, canvas : CanvasSizes]
    /\ am_out = <<>>

\* the scene is rendered, then animated on the same canvas
RenderAndAnimate ==
    /\ am_stage = "input"
    /\ am_stage' = "done"
    /\ LET drawn == render_positions(am_in.scene, am_in.canvas[1], am_in.canvas[2])
           animated == compute_positions(am_in.scene, am_in.canvas[1], am_in.canvas[2])
       IN  am_out' = [drawn |-> [boxes |-> drawn,
                                 arrows |-> render_arrows(am_in.scene, drawn)],
                      animated |-> [boxes |-> animated,
                                    arrows |-> extract_arrow_paths(am_in.scene, animated)]]
    /\ UNCHANGED <<am_in, notAm>>

NextAnimate == RenderAndAnimate

SpecAnimate == InitAnimate /\ [][NextAnimate]_vars

(***************************************************************************)
(* The agent pipeline.  Durations are whole milliseconds.  A text (an      *)
(* error, a warning, the message of an exception) is the sequence of its   *)
(* characters; an agent output is "none" until the agent has written it.   *)
(* pl_stage is the point the run has reached: an await of an agent (the    *)
(* event loop may run other tasks there), the return of an agent, or the   *)
(* end of the run.  pl_env keeps what the caller and the run know besides  *)
(* the context: the quality flag of the pipeline, the time since the run   *)
(* began, the time at which the running agent started, the keywords the    *)
(* Research Agent holds while it searches, the exception that left run and *)
(* where it was raised, whether the Research Agent raised, and the report  *)
(* of the quality check.                                                   *)
(***************************************************************************)
NoTimings == [s \in {} |-> 0]
NoResult == [file |-> "none", quality_report |-> FALSE]

Digits == <<"0", "1", "2", "3", "4", "5", "6", "7", "8", "9">>
\* str(n) of an integer n >= 0
RECURSIVE IntText(_)
IntText(n) == IF n < 10 THEN <<Digits[n + 1]>> ELSE Append(IntText(n \div 10), Digits[(n % 10) + 1])
\* f"{score:.2f}" of a score >= 0 given in hundredths
Fixed2(score) ==
    IntText(score \div 100) \o <<".", Digits[((score \div 10) % 10) + 1], Digits[(score % 10) + 1]>>
\* sep.join(texts)
RECURSIVE Join(_, _)
Join(sep, texts) ==
    IF texts = <<>> THEN <<>>
    ELSE IF Len(texts) = 1 THEN texts[1]
    ELSE texts[1] \o sep \o Join(sep, Tail(texts))
\* s in t
In(s, t) == \E i \in 0..(Len(t) - Len(s)) : SubSeq(t, i + 1, i + Len(s)) = s
\* t.startswith(p)
StartsWith(t, p) == Len(p) <= Len(t) /\ SubSeq(t, 1, Len(p)) = p

\* the literal texts of the agents and of the orchestrator
\* "Research skipped (disabled)"
ResearchSkipped ==
    <<"R", "e", "s", "e", "a", "r", "c", "h", " ", "s", "k", "i", "p", "p", "e", "d",
      " ", "(", "d", "i", "s", "a", "b", "l", "e", "d", ")">>
\* "Research Agent failed: "
ResearchAgentFailed ==
    <<"R", "e", "s", "e", "a", "r", "c", "h", " ", "A", "g", "e", "n", "t", " ", "f",
      "a", "i", "l", "e", "d", ":", " ">>
\* "Search error: "
SearchError == <<"S", "e", "a", "r", "c", "h", " ", "e", "r", "r", "o", "r", ":", " ">>
\* "SERPER_API_KEY not set - skipping image search"
NoSerperKey ==
    <<"S", "E", "R", "P", "E", "R", "_", "A", "P", "I", "_", "K", "E", "Y", " ", "n",
      "o", "t", " ", "s", "e", "t", " ", "-", " ", "s", "k", "i", "p", "p", "i",
      "n", "g", " ", "i", "m", "a", "g", "e", " ", "s", "e", "a", "r", "c", "h">>
\* "Structure Agent failed: "
StructureAgentFailed ==
    <<"S", "t", "r", "u", "c", "t", "u", "r", "e", " ", "A", "g", "e", "n", "t", " ",
      "f", "a", "i", "l", "e", "d", ":", " ">>
\* "Structure Agent retry failed: "
StructureAgentRetryFailed ==
    <<"S", "t", "r", "u", "c", "t", "u", "r", "e", " ", "A", "g", "e", "n", "t", " ",
      "r", "e", "t", "r", "y", " ", "f", "a", "i", "l", "e", "d", ":", " ">>
\* "Render Agent: No infographic data to render"
RenderAgentNoData ==
    <<"R", "e", "n", "d", "e", "r", " ", "A", "g", "e", "n", "t", ":", " ", "N", "o",
      " ", "i", "n", "f", "o", "g", "r", "a", "p", "h", "i", "c", " ", "d", "a",
      "t", "a", " ", "t", "o", " ", "r", "e", "n", "d", "e", "r">>
\* "No infographic data available for rendering"
NoDataAvailable ==
    <<"N", "o", " ", "i", "n", "f", "o", "g", "r", "a", "p", "h", "i", "c", " ", "d",
      "a", "t", "a", " ", "a", "v", "a", "i", "l", "a", "b", "l", "e", " ", "f",
      "o", "r", " ", "r", "e", "n", "d", "e", "r", "i", "n", "g">>
\* "Render Agent failed: "
RenderAgentFailed ==
    <<"R", "e", "n", "d", "e", "r", " ", "A", "g", "e", "n", "t", " ", "f", "a", "i",
      "l", "e", "d", ":", " ">>
\* "Quality check failed: "
QualityCheckFailed ==
    <<"Q", "u", "a", "l", "i", "t", "y", " ", "c", "h", "e", "c", "k", " ", "f", "a",
      "i", "l", "e", "d", ":", " ">>
\* "Quality check failed (score="
QualityScore ==
    <<"Q", "u", "a", "l", "i", "t", "y", " ", "c", "h", "e", "c", "k", " ", "f", "a",
      "i", "l", "e", "d", " ", "(", "s", "c", "o", "r", "e", "=">>
\* "), retrying..."
Retrying == <<")", ",", " ", "r", "e", "t", "r", "y", "i", "n", "g", ".", ".", ".">>
\* "Pipeline failed: "
PipelineFailed ==
    <<"P", "i", "p", "e", "l", "i", "n", "e", " ", "f", "a", "i", "l", "e", "d", ":",
      " ">>
\* " | "
Bar == <<" ", "|", " ">>
\* str(e) of the exception a faked service raises
Boom == <<"b", "o", "o", "m">>
\* resp.error of a search that Serper answered with HTTP 403
Forbidden ==
    <<"S", "e", "r", "p", "e", "r", " ", "A", "P", "I", " ", "e", "r", "r", "o", "r",
      ":", " ", "4", "0", "3", " ", "-", " ", "F", "o", "r", "b", "i", "d", "d",
      "e", "n">>
\* The value a JSON reply holds where an agent expects a list of strings: of
\* the values JSON has, None, an integer, a string (items: its characters) and
\* a list of such values are modelled
PyNone == [type |-> "NoneType", items |-> <<>>]
\* an integer other than 0
PyInt == [type |-> "int", items |-> <<>>]
PyStr(chars) == [type |-> "str", items |-> chars]
PyList(items) == [type |-> "list", items |-> items]
\* type(v).__name__
TypeName(v) ==
    CASE v.type = "NoneType" -> <<"N", "o", "n", "e", "T", "y", "p", "e">>
      [] v.type = "int" -> <<"i", "n", "t">>
      [] v.type = "str" -> <<"s", "t", "r">>
      [] v.type = "list" -> <<"l", "i", "s", "t">>
\* bool(v)
Truthy(v) == IF v.type \in {"str", "list"} THEN v.items # <<>> ELSE v.type # "NoneType"
\* ', '.join(v) returns: v is a string, or a list of strings
Joinable(v) ==
    \/ v.type = "str"
    \/ v.type = "list" /\ \A i \in 1..Len(v.items) : v.items[i].type = "str"
\* str(e) of the TypeError of ', '.join(None)
JoinTypeError ==
    <<"c", "a", "n", " ", "o", "n", "l", "y", " ", "j", "o", "i", "n", " ", "a", "n",
      " ", "i", "t", "e", "r", "a", "b", "l", "e">>
\* str(e) of the TypeError of ', '.join(items) whose item `index` is no string
ItemTypeError(index, item) ==
    <<"s", "e", "q", "u", "e", "n", "c", "e", " ", "i", "t", "e", "m", " ">>
        \o IntText(index)
        \o <<":", " ", "e", "x", "p", "e", "c", "t", "e", "d", " ", "s", "t", "r", " ",
             "i", "n", "s", "t", "a", "n", "c", "e", ",", " ">>
        \o TypeName(item)
        \o <<" ", "f", "o", "u", "n", "d">>
\* str(e) of the TypeError ', '.join(v) raises when v is not joinable
JoinError(v) ==
    IF v.type # "list" THEN JoinTypeError
    ELSE LET first == CHOOSE i \in 1..Len(v.items) :
                          /\ v.items[i].type # "str"
                          /\ \A j \in 1..(i - 1) : v.items[j].type = "str"
         IN  ItemTypeError(first - 1, v.items[first])
\* ResearchFindings: of its fields the keywords are kept, as the reply gave them
ResearchFindings(keywords) == [origin |-> "replies", topic_keywords |-> keywords]
\* ResearchAgent._default_findings
_default_findings == [origin |-> "default", topic_keywords |-> PyList(<<>>)]
\* research_findings of a context no Research Agent has filled (None)
NoFindings == [origin |-> "none", topic_keywords |-> PyNone]

PipelineContext(enable_research, max_retries) ==
    [enable_research |-> enable_research, stage |-> "initialized", errors |-> <<>>,
     warnings |-> <<>>, timings |-> NoTimings, retry_count |-> 0,
     max_retries |-> max_retries, research_findings |-> NoFindings,
     infographic_data |-> "none", render_result |-> NoResult]

add_error(ctx, error) == [ctx EXCEPT !.errors = Append(@, error)]
add_warning(ctx, warning) == [ctx EXCEPT !.warnings = Append(@, warning)]
record_timing(ctx, step, duration) ==
    [ctx EXCEPT !.timings = [s \in (DOMAIN ctx.timings) \cup {step} |->
                                IF s = step THEN duration ELSE ctx.timings[s]]]

\* sum(self.timings.values())
RECURSIVE TimingSum(_, _)
TimingSum(timings, steps) ==
    IF steps = {} THEN 0
    ELSE LET s == CHOOSE t \in steps : TRUE
         IN  timings[s] + TimingSum(timings, steps \ {s})
total_time(ctx) == TimingSum(ctx.timings, DOMAIN ctx.timings)

\* round(seconds, 2), in hundredths of a second, of a duration in milliseconds
\* that is not halfway between two hundredths
Round2(ms) == (ms + 5) \div 10

StepNames == <<"research", "structure", "render">>

RECURSIVE SummarySteps(_, _)
SummarySteps(ctx, i) ==
    IF i > Len(StepNames) THEN <<>>
    ELSE LET step_name == StepNames[i]
             rest == SummarySteps(ctx, i + 1)
         IN  IF step_name \in DOMAIN ctx.timings
             THEN <<[name |-> step_name, duration |-> Round2(ctx.timings[step_name]),
                     status |-> "completed"]>> \o rest
             ELSE IF ctx.stage = "failed"
             THEN <<[name |-> step_name, duration |-> 0,
                     status |-> IF step_name \notin DOMAIN ctx.timings THEN "failed"
                                ELSE "completed"]>> \o rest
             ELSE rest

to_summary(ctx) ==
    [pipeline_steps |-> SummarySteps(ctx, 1), total_time |-> Round2(total_time(ctx)),
     errors |-> ctx.errors, warnings |-> ctx.warnings]

\* what an agent call hands back: the context, and the exception it raised
Returns(ctx) == [ctx |-> ctx, raised |-> FALSE, msg |-> <<>>]
Raises(ctx, msg) == [ctx |-> ctx, raised |-> TRUE, msg |-> msg]

\* ResearchAgent.run with research disabled: it returns without an await
research_disabled(ctx0) ==
    LET ctx == [ctx0 EXCEPT !.stage = "researching"]
    IN  record_timing(add_warning([ctx EXCEPT !.research_findings = _default_findings],
                                  ResearchSkipped),
                      "research", 0)

\* ResearchAgent.run, the except clause without its default findings
research_failed_NoDefaults(ctx, msg, elapsed) ==
    record_timing(add_warning(ctx, ResearchAgentFailed \o msg), "research", elapsed)

\* ResearchAgent.run, the except and finally clauses
research_failed(ctx, msg, elapsed) ==
    record_timing([add_warning(ctx, ResearchAgentFailed \o msg)
                      EXCEPT !.research_findings = _default_findings],
                  "research", elapsed)

\* ResearchAgent.run, the loop over the search responses: errors is resp.error
\* of every response in turn, the empty text where the search succeeded
RECURSIVE search_warnings(_, _)
search_warnings(ctx, errors) ==
    IF errors = <<>> THEN ctx
    ELSE search_warnings(IF Head(errors) # <<>>
                         THEN add_warning(ctx, SearchError \o Head(errors))
                         ELSE ctx,
                         Tail(errors))


\* ResearchAgent.run, the findings are assembled and the finally clause runs
research_found(ctx, keywords, elapsed) ==
    record_timing([ctx EXCEPT !.research_findings = ResearchFindings(keywords)],
                  "research", elapsed)

\* build_user_prompt raises: the keywords of the findings are joined when they
\* are truthy (the default findings have none)
PromptRaises(ctx) ==
    /\ ctx.research_findings # NoFindings
    /\ Truthy(ctx.research_findings.topic_keywords)
    /\ ~Joinable(ctx.research_findings.topic_keywords)
\* str(e) of the exception that ends the agent: of the prompt, else of the model
StructureError(ctx, reply) ==
    IF PromptRaises(ctx) THEN JoinError(ctx.research_findings.topic_keywords)
    ELSE reply.msg

\* StructureAgent.run; the reply is not awaited when the prompt raises
structure_agent_run(ctx0, reply, elapsed) ==
    LET ctx == [ctx0 EXCEPT !.stage = "structuring"]
    IN  IF PromptRaises(ctx) \/ reply.raises
        THEN Raises(record_timing([add_error(ctx, StructureAgentFailed
                                                      \o StructureError(ctx, reply))
                                      EXCEPT !.stage = "failed"],
                                  "structure", elapsed), StructureError(ctx, reply))
        ELSE Returns(record_timing([ctx EXCEPT !.infographic_data = "first"],
                                   "structure", elapsed))

\* StructureAgent.run_with_feedback
run_with_feedback(ctx0, reply, elapsed) ==
    LET ctx == [ctx0 EXCEPT !.stage = "structuring"]
    IN  IF PromptRaises(ctx) \/ reply.raises
        THEN Raises(record_timing([add_error(ctx, StructureAgentRetryFailed
                                                      \o StructureError(ctx, reply))
                                      EXCEPT !.stage = "failed"],
                                  "structure_retry", elapsed), StructureError(ctx, reply))
        ELSE Returns(record_timing([ctx EXCEPT !.infographic_data = "improved"],
                                   "structure_retry", elapsed))

\* RenderAgent.run
render_agent_run(ctx0, reply, elapsed) ==
    LET ctx == [ctx0 EXCEPT !.stage = "rendering"]
    IN  IF ctx.infographic_data = "none"
        THEN Raises([add_error(ctx, RenderAgentNoData) EXCEPT !.stage = "failed"],
                    NoDataAvailable)
        ELSE IF reply.raises
        THEN Raises(record_timing([add_error(ctx, RenderAgentFailed \o reply.msg)
                                      EXCEPT !.stage = "failed"],
                                  "render", elapsed), reply.msg)
        ELSE Returns(record_timing(
                 [ctx EXCEPT !.render_result = [file |-> ctx.infographic_data,
                                                quality_report |-> FALSE]],
                 "render", elapsed))

\* QualityReport; the score is in hundredths
QualityReport(score, passed, issues, suggestions) ==
    [score |-> score, passed |-> passed, issues |-> issues, suggestions |-> suggestions]
DefaultScore == 70
\* "No data to check"
NoDataToCheck ==
    <<"N", "o", " ", "d", "a", "t", "a", " ", "t", "o", " ", "c", "h", "e", "c", "k">>

\* RenderAgent.quality_check: the reply of the model is a JSON object that
\* may lack "score" and "passed", and whose "issues" and "suggestions" are
\* taken as they come
quality_check(ctx, reply) ==
    IF ctx.infographic_data = "none"
    THEN [ctx |-> ctx,
          report |-> QualityReport(0, FALSE, PyList(<<PyStr(NoDataToCheck)>>), PyList(<<>>))]
    ELSE IF reply.raises
    THEN [ctx |-> add_warning(ctx, QualityCheckFailed \o reply.msg),
          report |-> QualityReport(DefaultScore, TRUE, PyList(<<>>), PyList(<<>>))]
    ELSE [ctx |-> ctx,
          report |-> QualityReport(IF reply.has_score THEN reply.score ELSE DefaultScore,
                                   IF reply.has_passed THEN reply.passed ELSE TRUE,
                                   reply.issues, reply.suggestions)]

\* _quality_check_and_retry, the feedback: the issues are joined, then the
\* suggestions
FeedbackRaises(report) == ~Joinable(report.issues) \/ ~Joinable(report.suggestions)
\* str(e) of the TypeError the feedback raises
FeedbackError(report) ==
    IF ~Joinable(report.issues) THEN JoinError(report.issues)
    ELSE JoinError(report.suggestions)

\* str(e) in " | ".join(ctx.errors)
InErrors(errors, msg) == In(msg, Join(Bar, errors))

\* run, the except and finally clauses: the exception leaves the pipeline
fail(ctx0, msg, total) ==
    LET ctx == [ctx0 EXCEPT !.stage = "failed"]
    IN  record_timing(IF InErrors(ctx.errors, msg) THEN ctx
                      ELSE add_error(ctx, PipelineFailed \o msg),
                      "total_pipeline", total)

\* run, the last statement of the try block and the finally clause
complete(ctx, total) ==
    record_timing([ctx EXCEPT !.stage = "completed"], "total_pipeline", total)

\* ctx.render_result.quality_report = report
store_report(ctx) ==
    IF ctx.render_result.file # "none"
    THEN [ctx EXCEPT !.render_result.quality_report = TRUE]
    ELSE ctx

MaxRetries == 1
MaxQueries == 2
Durations == {1204, 2412}
ExcMessages == {Boom, <<>>}
AgentReplies == {[raises |-> FALSE, msg |-> <<>>]} \cup [raises : {TRUE}, msg : ExcMessages]
\* "k", a keyword, an issue or a suggestion
OneWord == PyStr(<<"k">>)
\* the "keywords" of a reply: a list of strings, null, or a list of numbers
KeywordValues == {PyList(<<OneWord>>), PyNone, PyList(<<PyInt, PyInt>>)}
\* what _extract_keywords did, whether the Serper key is set, whether the reply
\* holds search queries, and its keywords
KeywordReplies ==
    [raises : {FALSE}, msg : {<<>>}, serper : BOOLEAN, queries : BOOLEAN,
     keywords : KeywordValues]
        \cup {[raises |-> TRUE, msg |-> Boom, serper |-> FALSE, queries |-> FALSE,
               keywords |-> PyNone]}
\* what multi_search returned for 1..MaxQueries queries: resp.error of every
\* response, and whether a successful response holds images
SearchErrors == UNION {[1..k -> {<<>>, Forbidden}] : k \in 1..MaxQueries}
SearchReplies ==
    {r \in [errors : SearchErrors, images : BOOLEAN] :
        r.images => \E i \in 1..Len(r.errors) : r.errors[i] = <<>>}
\* the "issues" and the "suggestions" of a quality reply
IssueValues == {PyList(<<OneWord>>), PyNone, PyList(<<PyInt, PyInt>>)}
SuggestionValues == {PyList(<<>>), PyList(<<OneWord, PyNone>>)}
QualityReplies ==
    [raises : {FALSE}, msg : {<<>>}, has_score : {TRUE}, score : {30, 70, 90},
     has_passed : BOOLEAN, passed : BOOLEAN, issues : IssueValues,
     suggestions : SuggestionValues]
        \cup {[raises |-> TRUE, msg |-> Boom, has_score |-> FALSE, score |-> 0,
               has_passed |-> FALSE, passed |-> FALSE, issues |-> PyList(<<>>),
               suggestions |-> PyList(<<>>)],
              [raises |-> FALSE, msg |-> <<>>, has_score |-> FALSE, score |-> 0,
               has_passed |-> FALSE, passed |-> FALSE, issues |-> PyList(<<>>),
               suggestions |-> PyList(<<>>)]}
NoException == [raised |-> FALSE, msg |-> <<>>, by |-> "none"]
NoReport == QualityReport(0, FALSE, PyList(<<>>), PyList(<<>>))
\* the keywords of the reply, while the Research Agent holds them
NoKeywords == PyList(<<>>)

InitPipeline ==
    /\ OthersIdle("pl")
    /\ pl_stage = "start"
    /\ pl_ctx \in {PipelineContext(r, m) : r \in BOOLEAN, m \in 0..MaxRetries}
    /\ pl_env \in [enable_quality_check : BOOLEAN, clock : {0}, started : {0},
                   keywords : {NoKeywords}, exc : {NoException},
                   research_raised : {FALSE}, checked : {FALSE}, report : {NoReport}]
    /\ pl_out = <<>>

\* the exception of an agent, or of the pipeline itself, leaves run
Propagate(ctx, msg, by, clock) ==
    /\ pl_stage' = "raised"
    /\ pl_ctx' = fail(ctx, msg, clock)
    /\ pl_env' = [pl_env EXCEPT !.clock = clock,
                                !.exc = [raised |-> TRUE, msg |-> msg, by |-> by]]

\* run returns the context
Return(ctx, clock) ==
    /\ pl_stage' = "returned"
    /\ pl_ctx' = complete(ctx, clock)
    /\ pl_env' = [pl_env EXCEPT !.clock = clock]

\* the run has reached the next point
Await(stage, ctx, clock) ==
    /\ pl_stage' = stage
    /\ pl_ctx' = ctx
    /\ pl_env' = [pl_env EXCEPT !.clock = clock]

\* an agent is entered: it sets the stage and takes its start time
Enter(point, stage) ==
    /\ pl_stage' = point
    /\ pl_ctx' = [pl_ctx EXCEPT !.stage = stage]
    /\ pl_env' = [pl_env EXCEPT !.started = pl_env.clock]

\* the Research Agent returns to the orchestrator
Researched(ctx, raised, clock) ==
    /\ pl_stage' = "researched"
    /\ pl_ctx' = ctx
    /\ pl_env' = [pl_env EXCEPT !.clock = clock, !.research_raised = raised,
                                !.keywords = NoKeywords]

\* Agent 1 is entered: it returns at once when research is disabled, else it
\* awaits the keywords
RunResearch ==
    /\ pl_stage = "start"
    /\ IF pl_ctx.enable_research THEN Enter("keywords", "researching")
       ELSE Researched(research_disabled(pl_ctx), FALSE, pl_env.clock)
    /\ UNCHANGED <<pl_out, notPl>>

\* _extract_keywords has answered: the agent goes on to the search, or returns
ExtractKeywords ==
    /\ pl_stage = "keywords"
    /\ \E reply \in KeywordReplies, d \in Durations :
           IF reply.raises
           THEN Researched(research_failed(pl_ctx, reply.msg, pl_env.clock + d - pl_env.started),
                           TRUE, pl_env.clock + d)
           ELSE IF reply.serper /\ reply.queries
           THEN /\ pl_stage' = "searching"
                /\ pl_ctx' = pl_ctx
                /\ pl_env' = [pl_env EXCEPT !.clock = pl_env.clock + d,
                                            !.keywords = reply.keywords]
           ELSE Researched(research_found(IF reply.serper THEN pl_ctx
                                          ELSE add_warning(pl_ctx, NoSerperKey),
                                          reply.keywords,
                                          pl_env.clock + d - pl_env.started),
                           FALSE, pl_env.clock + d)
    /\ UNCHANGED <<pl_out, notPl>>

\* multi_search has answered: a warning per failed search; when images were
\* found _analyze_style joins the keywords into its prompt and awaits the
\* model, else the agent returns
MultiSearch ==
    /\ pl_stage = "searching"
    /\ \E reply \in SearchReplies, d \in Durations :
           IF reply.images /\ ~Joinable(pl_env.keywords)
           THEN Researched(research_failed(search_warnings(pl_ctx, reply.errors),
                                           JoinError(pl_env.keywords),
                                           pl_env.clock + d - pl_env.started),
                           TRUE, pl_env.clock + d)
           ELSE IF reply.images
           THEN Await("analyzing", search_warnings(pl_ctx, reply.errors), pl_env.clock + d)
           ELSE Researched(research_found(search_warnings(pl_ctx, reply.errors),
                                          pl_env.keywords,
                                          pl_env.clock + d - pl_env.started),
                           FALSE, pl_env.clock + d)
    /\ UNCHANGED <<pl_out, notPl>>

\* _analyze_style has answered (it never raises once it awaits): the agent returns
AnalyzeStyle ==
    /\ pl_stage = "analyzing"
    /\ \E d \in Durations :
           Researched(research_found(pl_ctx, pl_env.keywords,
                                     pl_env.clock + d - pl_env.started),
                      FALSE, pl_env.clock + d)
    /\ UNCHANGED <<pl_out, notPl>>

\* the reply of an agent that was not awaited
NoReply == [raises |-> FALSE, msg |-> <<>>]

\* Agent 2 is entered: it awaits the reply of the model, unless its prompt raises
RunStructure ==
    /\ pl_stage = "researched"
    /\ IF PromptRaises(pl_ctx)
       THEN LET r == structure_agent_run(pl_ctx, NoReply, 0)
            IN  Propagate(r.ctx, r.msg, "structure", pl_env.clock)
       ELSE Enter("structuring", "structuring")
    /\ UNCHANGED <<pl_out, notPl>>

\* the model has answered Agent 2
Structure ==
    /\ pl_stage = "structuring"
    /\ \E reply \in AgentReplies, d \in Durations :
           LET r == structure_agent_run(pl_ctx, reply, pl_env.clock + d - pl_env.started)
           IN  IF r.raised THEN Propagate(r.ctx, r.msg, "structure", pl_env.clock + d)
               ELSE Await("structured", r.ctx, pl_env.clock + d)
    /\ UNCHANGED <<pl_out, notPl>>

\* Agent 3, which does not await, and the end of the run when no quality
\* check is due
RunRender ==
    /\ pl_stage = "structured"
    /\ \E reply \in AgentReplies, d \in Durations :
           LET r == render_agent_run(pl_ctx, reply, d)
           IN  IF r.raised THEN Propagate(r.ctx, r.msg, "render", pl_env.clock + d)
               ELSE IF pl_env.enable_quality_check /\ r.ctx.retry_count < r.ctx.max_retries
               THEN Await("rendered", r.ctx, pl_env.clock + d)
               ELSE Return(r.ctx, pl_env.clock + d)
    /\ UNCHANGED <<pl_out, notPl>>

\* _quality_check_and_retry: the model has answered the quality check
QualityCheck ==
    /\ pl_stage = "rendered"
    /\ \E reply \in QualityReplies, d \in Durations :
           LET q == quality_check(pl_ctx, reply)
               clock == pl_env.clock + d
               retried == [q.ctx EXCEPT !.retry_count = @ + 1]
           IN  IF q.report.passed
               THEN /\ pl_stage' = "returned"
                    /\ pl_ctx' = complete(store_report(q.ctx), clock)
                    /\ pl_env' = [pl_env EXCEPT !.clock = clock, !.checked = TRUE,
                                                !.report = q.report]
               ELSE IF FeedbackRaises(q.report)
               THEN /\ pl_stage' = "raised"
                    /\ pl_ctx' = fail(retried, FeedbackError(q.report), clock)
                    /\ pl_env' = [pl_env EXCEPT !.clock = clock, !.checked = TRUE,
                                                !.report = q.report,
                                                !.exc = [raised |-> TRUE,
                                                         msg |-> FeedbackError(q.report),
                                                         by |-> "pipeline"]]
               ELSE /\ pl_stage' = "retrying"
                    /\ pl_ctx' = add_warning(retried, QualityScore \o Fixed2(q.report.score) \o Retrying)
                    /\ pl_env' = [pl_env EXCEPT !.clock = clock, !.checked = TRUE,
                                                !.report = q.report]
    /\ UNCHANGED <<pl_out, notPl>>

\* the Structure Agent is entered again, with the feedback, and awaits the model
RetryStructure ==
    /\ pl_stage = "retrying"
    /\ IF PromptRaises(pl_ctx)
       THEN LET r == run_with_feedback(pl_ctx, NoReply, 0)
            IN  Propagate(r.ctx, r.msg, "structure", pl_env.clock)
       ELSE Enter("restructuring", "structuring")
    /\ UNCHANGED <<pl_out, notPl>>

\* the model has answered the re-run of Agent 2
Restructure ==
    /\ pl_stage = "restructuring"
    /\ \E reply \in AgentReplies, d \in Durations :
           LET r == run_with_feedback(pl_ctx, reply, pl_env.clock + d - pl_env.started)
           IN  IF r.raised THEN Propagate(r.ctx, r.msg, "structure", pl_env.clock + d)
               ELSE Await("restructured", r.ctx, pl_env.clock + d)
    /\ UNCHANGED <<pl_out, notPl>>

\* the scene is rendered again and the run ends
RetryRender ==
    /\ pl_stage = "restructured"
    /\ \E reply \in AgentReplies, d \in Durations :
           LET r == render_agent_run(pl_ctx, reply, d)
           IN  IF r.raised THEN Propagate(r.ctx, r.msg, "render", pl_env.clock + d)
               ELSE Return(store_report(r.ctx), pl_env.clock + d)
    /\ UNCHANGED <<pl_out, notPl>>

\* the caller reads total_time and to_summary()
Summarize ==
    /\ pl_stage \in {"returned", "raised"}
    /\ pl_stage' = "summarized"
    /\ pl_out' = [summary |-> to_summary(pl_ctx), total_time |-> total_time(pl_ctx)]
    /\ UNCHANGED <<pl_ctx, pl_env, notPl>>

NextPipeline ==
    \/ RunResearch
    \/ ExtractKeywords
    \/ MultiSearch
    \/ AnalyzeStyle
    \/ RunStructure
    \/ Structure
    \/ RunRender
    \/ QualityCheck
    \/ RetryStructure
    \/ Restructure
    \/ RetryRender
    \/ Summarize

SpecPipeline == InitPipeline /\ [][NextPipeline]_vars

(***************************************************************************)
(* The random module as renders share it, and the whiteboard renderer of   *)
(* multi-agent scenes, the renderer that lays its nodes out with           *)
(* layout_force_directed.  The generator is the record [seed, drawn]       *)
(* defined with the simulation; the values of a seed form a fixed stream.  *)
(***************************************************************************)
\* The generator behind random.seed and random.random is the Mersenne Twister
\* of 624 words of 32 bits.  A word is the pair <<high, low>> of its 16-bit
\* halves; word i of the state, counted from 0, is mt[i + 1].
RECURSIVE BitXor(_, _)
BitXor(a, b) ==
    IF a = 0 THEN b ELSE IF b = 0 THEN a
    ELSE ((a + b) % 2) + 2 * BitXor(a \div 2, b \div 2)
RECURSIVE BitAnd(_, _)
BitAnd(a, b) ==
    IF a = 0 \/ b = 0 THEN 0 ELSE ((a % 2) * (b % 2)) + 2 * BitAnd(a \div 2, b \div 2)
WXor(x, y) == <<BitXor(x[1], y[1]), BitXor(x[2], y[2])>>
WAnd(x, y) == <<BitAnd(x[1], y[1]), BitAnd(x[2], y[2])>>
\* x >> k and x << k for 0 < k < 32
WShr(x, k) ==
    IF k >= 16 THEN <<0, x[1] \div (2 ^ (k - 16))>>
    ELSE <<x[1] \div (2 ^ k), (x[2] \div (2 ^ k)) + (x[1] % (2 ^ k)) * (2 ^ (16 - k))>>
WShl(x, k) ==
    IF k >= 16 THEN <<(x[2] % (2 ^ (32 - k))) * (2 ^ (k - 16)), 0>>
    ELSE <<(x[1] % (2 ^ (16 - k))) * (2 ^ k) + (x[2] \div (2 ^ (16 - k))),
           (x[2] % (2 ^ (16 - k))) * (2 ^ k)>>
\* x + y and x - y in 32 bits
WAdd(x, y) == <<(x[1] + y[1] + (x[2] + y[2]) \div 65536) % 65536, (x[2] + y[2]) % 65536>>
WSub(x, y) ==
    <<(x[1] - y[1] - (IF x[2] < y[2] THEN 1 ELSE 0) + 2 * 65536) % 65536,
      (x[2] - y[2] + 65536) % 65536>>
\* the product of two halves, as a word
HalfMul(a, b) ==
    <<(((a % 256) * b + (((a \div 256) * b) % 256) * 256) \div 65536
           + ((a \div 256) * b) \div 256) % 65536,
      ((a % 256) * b + (((a \div 256) * b) % 256) * 256) % 65536>>
\* x * y in 32 bits
WMul(x, y) ==
    <<(HalfMul(x[2], y[2])[1] + HalfMul(x[1], y[2])[2] + HalfMul(x[2], y[1])[2]) % 65536,
      HalfMul(x[2], y[2])[2]>>
\* the word of 0 <= n < 2^31
WOf(n) == <<n \div 65536, n % 65536>>

\* 0x9908b0df
MATRIX_A == <<39176, 45279>>
\* 1812433253, 1664525, 1566083941 and 19650218
GenrandFactor == <<27655, 35173>>
KeyFactor == <<25, 26125>>
FinalFactor == <<23896, 35685>>
GenrandSeed == <<299, 54954>>

\* w ^ (w >> 30)
TopMixed(w) == WXor(w, WShr(w, 30))

\* The loops over the state are split in halves, and the first half is
\* computed before the second is entered.
RECURSIVE GenrandLoop(_, _, _)
GenrandNext(mt, from, to) == IF Len(mt) > 0 THEN GenrandLoop(mt, from, to) ELSE mt
\* init_genrand: the words mti = from .. to, each from the one before
GenrandLoop(mt, from, to) ==
    IF from > to THEN mt
    ELSE IF from = to
    THEN Append(mt, WAdd(WMul(GenrandFactor, TopMixed(mt[from])), WOf(from)))
    ELSE GenrandNext(GenrandLoop(mt, from, (from + to) \div 2), (from + to) \div 2 + 1, to)
init_genrand(s) == GenrandLoop(<<s>>, 1, 623)

RECURSIVE KeyLoop(_, _, _, _)
KeyNext(mt, key, from, to) == IF Len(mt) > 0 THEN KeyLoop(mt, key, from, to) ELSE mt
\* the first loop of init_by_array with a key of one word, for i = from .. to
KeyLoop(mt, key, from, to) ==
    IF from > to THEN mt
    ELSE IF from = to
    THEN [mt EXCEPT ![from + 1] =
             WAdd(WXor(mt[from + 1], WMul(TopMixed(mt[from]), KeyFactor)), key)]
    ELSE KeyNext(KeyLoop(mt, key, from, (from + to) \div 2), key, (from + to) \div 2 + 1, to)

RECURSIVE FinalLoop(_, _, _)
FinalNext(mt, from, to) == IF Len(mt) > 0 THEN FinalLoop(mt, from, to) ELSE mt
\* the second loop of init_by_array, for i = from .. to
FinalLoop(mt, from, to) ==
    IF from > to THEN mt
    ELSE IF from = to
    THEN [mt EXCEPT ![from + 1] =
             WSub(WXor(mt[from + 1], WMul(TopMixed(mt[from]), FinalFactor)), WOf(from))]
    ELSE FinalNext(FinalLoop(mt, from, (from + to) \div 2), (from + to) \div 2 + 1, to)

\* i has reached N: mt[0] = mt[N-1]; i = 1
Wrapped(mt) == [mt EXCEPT ![1] = mt[624]]

\* init_by_array with the one-word key of 0 <= a < 2^31: the first loop runs N
\* times from i = 1 and the second N - 1 times from where the first ended
init_by_array(a) ==
    [FinalNext(Wrapped(FinalNext(KeyNext(Wrapped(KeyNext(init_genrand(GenrandSeed), WOf(a),
                                                          1, 623)),
                                         WOf(a), 1, 1),
                                 2, 623)),
               1, 1)
        EXCEPT ![1] = <<32768, 0>>]

\* genrand_uint32, output kk < 227 counted from 0, of a state that has given
\* none: the word is regenerated from the words kk, kk + 1 and kk + 397 (N is
\* 624 and M is 397), then tempered
Twisted(mt, kk) ==
    WXor(WXor(mt[kk + 398],
              WShr(<<BitAnd(mt[kk + 1][1], 32768) + (mt[kk + 2][1] % 32768), mt[kk + 2][2]>>, 1)),
         IF mt[kk + 2][2] % 2 = 1 THEN MATRIX_A ELSE <<0, 0>>)
Tempered3(y) == WXor(y, WAnd(WShl(y, 15), <<61382, 0>>))
Tempered2(y) == Tempered3(WXor(y, WAnd(WShl(y, 7), <<40236, 22144>>)))
Tempered1(y) == Tempered2(WXor(y, WShr(y, 11)))
Tempered(y) == WXor(Tempered1(y), WShr(Tempered1(y), 18))
genrand_uint32(mt, kk) == Tempered(Twisted(mt, kk))

\* random.random(), draw k counted from 1, with a = genrand >> 5 and
\* b = genrand >> 6: the float (a * 67108864 + b) / 9007199254740992, which is exact
RandomOf(a, b) ==
    DRound(FALSE,
           Limbs([i \in LimbIdx |->
               IF i = 1 THEN b % LimbBase
               ELSE IF i = 2 THEN (b \div LimbBase) + (a % 4) * 4096
               ELSE IF i = 3 THEN (a \div 4) % LimbBase
               ELSE IF i = 4 THEN a \div 65536
               ELSE 0]),
           0 - 53, FALSE)
\* the integer of w >> k, for k >= 1
ShiftedInt(w, k) == WShr(w, k)[1] * 65536 + WShr(w, k)[2]
random_random(mt, k) ==
    RandomOf(ShiftedInt(genrand_uint32(mt, 2 * k - 2), 5),
             ShiftedInt(genrand_uint32(mt, 2 * k - 1), 6))
\* the first `count` values of random.random() after random.seed(a), for an
\* integer a of less than 32 bits, whose key is the one word abs(a)
SeededStream(mt, count) == SubSeq([k \in 1..count |-> random_random(mt, k)], 1, count)
random_seed(a, count) == SeededStream(init_by_array(IF a < 0 THEN 0 - a ELSE a), count)

\* random.random() for the first draws after random.seed(1)
Random1 ==
    <<DOf(<<13700, 9325, 11663, 1100>>, 0 - 55), DOf(<<1272, 11478, 8917, 1735>>, 0 - 53),
      DOf(<<7955, 8450, 3447, 1564>>, 0 - 53), DOf(<<16220, 9157, 12496, 1044>>, 0 - 54),
      DOf(<<13178, 14425, 4949, 2029>>, 0 - 54), DOf(<<10370, 12060, 1890, 1841>>, 0 - 54),
      DOf(<<14810, 1554, 7576, 1334>>, 0 - 53), DOf(<<15972, 859, 5004, 1615>>, 0 - 53)>>
\* the generator of a process that has drawn nothing yet: the interpreter seeded
\* it from the system at start-up, a seed that seed 1 stands for
StartRandom == [seed |-> 1, drawn |-> 0]
\* the first values of random.random() after random.seed(a): the two seeds the
\* renders meet are listed with the values random_seed gives for them
RandomStream(a) ==
    IF a = ForceSeed THEN Random42 ELSE IF a = 1 THEN Random1
    ELSE random_seed(a, Len(Random42))
\* the generator has `count` more listed values
Drawable(rng, count) == rng.drawn + count <= Len(RandomStream(rng.seed))
\* random.uniform(-40, 40), the k-th next draw of the generator: a + (b - a) * random()
uniform(rng, k) ==
    DAdd(DFromInt(0 - 40), DMul(DFromInt(80), RandomStream(rng.seed)[rng.drawn + k]))

\* pos_x, pos_y of n nodes without zone or group, seeded from the generator
SeededStart(rng, n, canvas_w, canvas_h, margin, header_h) ==
    LET usable_w == canvas_w - 2 * margin
        usable_h == canvas_h - header_h - margin
        cx == margin + usable_w \div 2
        cy == header_h + usable_h \div 2
    IN  SubSeq([idx \in 1..n |-> <<DAdd(DFromInt(cx), uniform(rng, 2 * idx - 1)),
                                   DAdd(DFromInt(cy), uniform(rng, 2 * idx))>>], 1, n)

\* A text is its string with the width and the height that text_size measures
\* for it in the font it is drawn in; None and "" are NoText.
Text(string, w, h) == [string |-> string, w |-> w, h |-> h]
NoText == Text("", 0, 0)
NoIcon == ""
text_size(text, font) == <<text.w, text.h>>
\* SYSTEM_FONTS: the files tried for a weight, in this order; FONTS_DIR is the
\* directory assets/fonts of the repository
SYSTEM_FONTS ==
    [regular |-> <<"assets/fonts/Inter-Regular.ttf",
                   "/System/Library/Fonts/Helvetica.ttc",
                   "/System/Library/Fonts/SFNS.ttf",
                   "/usr/share/fonts/truetype/dejavu/DejaVuSans.ttf",
                   "/usr/share/fonts/truetype/liberation/LiberationSans-Regular.ttf">>,
     bold |-> <<"assets/fonts/Inter-Bold.ttf",
                "/System/Library/Fonts/Helvetica.ttc",
                "/System/Library/Fonts/SFNS.ttf",
                "/usr/share/fonts/truetype/dejavu/DejaVuSans-Bold.ttf",
                "/usr/share/fonts/truetype/liberation/LiberationSans-Bold.ttf">>,
     semibold |-> <<"assets/fonts/Inter-SemiBold.ttf",
                    "assets/fonts/Inter-Bold.ttf",
                    "/System/Library/Fonts/Helvetica.ttc">>,
     mono |-> <<"assets/fonts/JetBrainsMono-Regular.ttf",
                "/System/Library/Fonts/SFMono-Regular.otf",
                "/usr/share/fonts/truetype/dejavu/DejaVuSansMono.ttf">>]
\* the font files that exist and load on the machine that renders: a Linux host
\* with the DejaVu fonts, on which the assets directory holds no font
FontFiles ==
    {"/usr/share/fonts/truetype/dejavu/DejaVuSans.ttf",
     "/usr/share/fonts/truetype/dejavu/DejaVuSans-Bold.ttf",
     "/usr/share/fonts/truetype/dejavu/DejaVuSansMono.ttf"}
\* ImageFont.load_default(): the built-in font, at its own size
load_default == [path |-> "", size |-> 10]
\* get_font loads the first file of the weight's list that exists, at the size
\* asked for; an unknown weight takes the list of "regular", and without any
\* file the built-in font is returned.  Its lru_cache keeps the fonts loaded.
get_font(size, weight) ==
    LET paths == IF weight \in DOMAIN SYSTEM_FONTS THEN SYSTEM_FONTS[weight]
                 ELSE SYSTEM_FONTS["regular"]
        found == SelectSeq(paths, LAMBDA path : path \in FontFiles)
    IN  IF found = <<>> THEN load_default ELSE [path |-> found[1], size |-> size]

get_node_center(pos) == <<pos[1] + pos[3] \div 2, pos[2] + pos[4] \div 2>>

get_node_edge(pos, target) ==
    LET x == pos[1]
        y == pos[2]
        w == pos[3]
        h == pos[4]
        cx == x + w \div 2
        cy == y + h \div 2
        dx == target[1] - cx
        dy == target[2] - cy
        abs(v) == IF v < 0 THEN 0 - v ELSE v
    IN  IF dx = 0 /\ dy = 0 THEN <<cx, cy>>
        ELSE IF abs(dy) >= abs(dx)
        THEN IF dy > 0 THEN <<cx, y + h>> ELSE <<cx, y>>
        ELSE IF dx > 0 THEN <<x + w, cy>> ELSE <<x, cy>>

\* theme.get(key, default)
ThemeGet(theme, key, default) == IF key \in DOMAIN theme THEN theme[key] ELSE default

\* parts[1] + ... + parts[k]
RECURSIVE Chain(_, _)
Chain(parts, k) == IF k = 0 THEN <<>> ELSE Chain(parts, k - 1) \o parts[k]

\* What _render_whiteboard draws is the sequence of its calls to the image
\* library and to the drawing helpers, each with its arguments.  A scene has
\* no zones; node i of data.nodes has id i.
\* _render_whiteboard up to the layout: background, outer border, title, subtitle
_render_whiteboard_header(data, width, height, theme) ==
    LET title_font == get_font(26, "bold")
        tw == text_size(data.title, title_font)[1]
        th == text_size(data.title, title_font)[2]
        title_x == (width - tw) \div 2
        title_y == 28
        sub_font == get_font(13, "regular")
        sw == text_size(data.subtitle, sub_font)[1]
    IN  <<[op |-> "Image.new", size |-> <<width, height>>, color |-> hex_to_rgb(theme.bg)],
          [op |-> "draw_outer_border", width |-> width, height |-> height,
           color |-> ThemeGet(theme, "outer_border_color", Hex(2, 11, 7, 13, 14, 9)),
           margin |-> 15, border_width |-> 2],
          [op |-> "rounded_rectangle",
           xy |-> <<title_x - 18, title_y - 6, title_x + tw + 18, title_y + th + 12>>,
           radius |-> 8, fill |-> hex_to_rgb(Hex(14, 3, 15, 2, 15, 13)),
           outline |-> hex_to_rgb(Hex(2, 11, 7, 13, 14, 9)), width |-> 2],
          [op |-> "text", xy |-> <<title_x, title_y>>, text |-> data.title.string,
           fill |-> hex_to_rgb(Hex(1, 5, 6, 5, 12, 0)), font |-> title_font]>>
        \o (IF data.subtitle # NoText
            THEN <<[op |-> "text", xy |-> <<(width - sw) \div 2, title_y + th + 18>>,
                    text |-> data.subtitle.string, fill |-> hex_to_rgb(theme.text_muted),
                    font |-> sub_font]>>
            ELSE <<>>)

\* header_h as the subtitle leaves it
_render_whiteboard_header_h(data) == IF data.subtitle # NoText THEN 110 ELSE 90

\* section_colors[i % len(section_colors)], counted from 0
SectionColor(theme, i) ==
    LET section_colors == ThemeGet(theme, "section_colors",
                              <<[fill |-> Hex(14, 3, 15, 2, 15, 13),
                                 border |-> Hex(2, 11, 7, 13, 14, 9),
                                 text |-> Hex(1, 5, 6, 5, 12, 0)]>>)
    IN  section_colors[(i % Len(section_colors)) + 1]

\* conn_label: the label of the first connection between the centre and the node
ConnLabel(connections, center_id, node_id) ==
    LET between == SelectSeq(connections, LAMBDA conn :
                       \/ conn.from_node = center_id /\ conn.to_node = node_id
                       \/ conn.from_node = node_id /\ conn.to_node = center_id)
    IN  IF between = <<>> THEN "" ELSE between[1].label

\* the arrow from the centre node to outer node i, counted from 0
WhiteboardArrow(data, positions, theme, i) ==
    LET center_pos == positions[1]
        from_center == get_node_center(center_pos)
        to_center == get_node_center(positions[i + 2])
    IN  <<[op |-> "draw_bezier_arrow", start |-> get_node_edge(center_pos, to_center),
           end |-> get_node_edge(positions[i + 2], from_center),
           color |-> SectionColor(theme, i + 1).border, width |-> 2, dashed |-> TRUE,
           curvature |-> DRatio(2, 10), label |-> ConnLabel(data.connections, 1, i + 2),
           flip_curve |-> (i % 2 = 0)]>>

\* the card of outer node i, counted from 0
WhiteboardOuterNode(data, positions, theme, i) ==
    LET node == data.nodes[i + 2]
        x == positions[i + 2][1]
        y == positions[i + 2][2]
        w == positions[i + 2][3]
        h == positions[i + 2][4]
        sc == SectionColor(theme, i + 1)
        padding == 10
        cx_node == x + w \div 2
        icon_bg_size == Min(40, h \div 3)
        icon_inner == DTrunc(DMul(DFromInt(icon_bg_size), DRatio(6, 10)))
        label_y == y + padding + 4 + (IF node.icon # NoIcon THEN icon_bg_size + 4 ELSE 0)
        label_font == get_font(Min(14, Max(11, h \div 6)), "bold")
        lw == text_size(node.label, label_font)[1]
        lh == text_size(node.label, label_font)[2]
        content_y == label_y + lh + 2
        desc_fs == Min(10, Max(8, h \div 8))
        line_h == DTrunc(DMul(DFromInt(desc_fs), DRatio(14, 10)))
        remaining_h == (y + h - 6) - content_y
    IN  <<[op |-> "rounded_rectangle", xy |-> <<x, y, x + w, y + h>>, radius |-> 10,
           fill |-> hex_to_rgb(sc.fill), outline |-> hex_to_rgb(sc.border), width |-> 2],
          [op |-> "draw_dashed_rect", bbox |-> <<x, y, x + w, y + h>>, color |-> sc.border,
           width |-> 2, dash |-> 8, gap |-> 5, radius |-> 10]>>
        \o (IF node.icon # NoIcon
            THEN <<[op |-> "draw_icon_with_bg", icon |-> node.icon,
                    center |-> <<cx_node, y + padding + 4 + icon_bg_size \div 2>>,
                    icon_size |-> icon_inner, bg_size |-> icon_bg_size,
                    icon_color |-> Hex(15, 15, 15, 15, 15, 15), bg_color |-> sc.border]>>
            ELSE <<>>)
        \o <<[op |-> "text", xy |-> <<cx_node - lw \div 2, label_y>>,
              text |-> node.label.string, fill |-> hex_to_rgb(theme.text),
              font |-> label_font]>>
        \o (IF node.description # NoText /\ h > 60
            THEN <<[op |-> "draw_text_block", text |-> node.description.string,
                    xy |-> <<x + padding, content_y>>, font |-> get_font(desc_fs, "regular"),
                    color |-> hex_to_rgb(theme.text_muted), max_width |-> w - padding * 2,
                    max_lines |-> Max(1, remaining_h \div line_h), align |-> "center"]>>
            ELSE <<>>)

\* the card of the centre node
WhiteboardCenterNode(data, positions, theme) ==
    LET center_node == data.nodes[1]
        x == positions[1][1]
        y == positions[1][2]
        w == positions[1][3]
        h == positions[1][4]
        sc0 == SectionColor(theme, 0)
        cx_center == x + w \div 2
        content_y == y + 12 + (IF center_node.icon # NoIcon THEN 40 ELSE 0)
        label_font == get_font(18, "bold")
        lw == text_size(center_node.label, label_font)[1]
        lh == text_size(center_node.label, label_font)[2]
        remaining_h == (y + h - 6) - (content_y + lh + 4)
        line_h == DTrunc(DMul(DFromInt(10), DRatio(14, 10)))
    IN  <<[op |-> "rounded_rectangle", xy |-> <<x - 2, y - 2, x + w + 2, y + h + 2>>,
           radius |-> 14, fill |-> hex_to_rgb(sc0.border)]>>
        \o (IF center_node.icon # NoIcon
            THEN <<[op |-> "draw_icon_with_bg", icon |-> center_node.icon,
                    center |-> <<cx_center, y + 12 + 18>>, icon_size |-> 22,
                    bg_size |-> 36, icon_color |-> Hex(15, 15, 15, 15, 15, 15),
                    bg_color |-> Hex(15, 15, 15, 15, 15, 15), border_color |-> sc0.border]>>
            ELSE <<>>)
        \o <<[op |-> "text", xy |-> <<cx_center - lw \div 2, content_y>>,
              text |-> center_node.label.string,
              fill |-> hex_to_rgb(Hex(15, 15, 15, 15, 15, 15)), font |-> label_font]>>
        \o (IF center_node.description # NoText
            THEN <<[op |-> "draw_text_block", text |-> center_node.description.string,
                    xy |-> <<x + 10, content_y + lh + 4>>, font |-> get_font(10, "regular"),
                    color |-> hex_to_rgb(Hex(14, 2, 14, 8, 15, 0)), max_width |-> w - 20,
                    line_height |-> line_h, max_lines |-> Max(1, remaining_h \div line_h),
                    align |-> "center"]>>
            ELSE <<>>)

\* _render_whiteboard after the layout: the arrows, the outer nodes, the centre
_render_whiteboard_nodes(data, positions, theme) ==
    LET outer == Len(data.nodes) - 1
    IN  Chain([k \in 1..outer |-> WhiteboardArrow(data, positions, theme, k - 1)], outer)
        \o Chain([k \in 1..outer |-> WhiteboardOuterNode(data, positions, theme, k - 1)],
                 outer)
        \o WhiteboardCenterNode(data, positions, theme)

\* the positions and the image of a render whose layout returned `positions`
\* after the calls `header` were drawn
WhiteboardResult(call, header, positions) ==
    [positions |-> positions,
     image |-> header \o _render_whiteboard_nodes(call.data, positions, call.theme)]

(***************************************************************************)
(* Specification of a process that renders one scene after the other with  *)
(* render_multi_agent on a whiteboard theme, and calls layout_grid in      *)
(* between.  A render runs from its header through the seeding, the        *)
(* iterations of the simulation one by one, to the drawing of the nodes.   *)
(* One finished render is kept for comparison with the later ones.         *)
(***************************************************************************)
ThemePlain ==
    [bg |-> Hex(15, 15, 15, 15, 15, 15), text |-> Hex(1, 14, 2, 9, 3, 11),
     text_muted |-> Hex(6, 4, 7, 4, 8, 11), dashed_border |-> TRUE]
ThemeSections ==
    [bg |-> Hex(15, 10, 15, 10, 15, 10), text |-> Hex(1, 14, 2, 9, 3, 11),
     text_muted |-> Hex(6, 4, 7, 4, 8, 11), dashed_border |-> TRUE,
     outer_border_color |-> Hex(1, 5, 6, 5, 12, 0),
     section_colors |-> <<[fill |-> Hex(14, 3, 15, 2, 15, 13),
                           border |-> Hex(2, 11, 7, 13, 14, 9),
                           text |-> Hex(1, 5, 6, 5, 12, 0)],
                          [fill |-> Hex(14, 8, 15, 5, 14, 9),
                           border |-> Hex(2, 14, 7, 13, 3, 2),
                           text |-> Hex(1, 11, 5, 14, 2, 0)],
                          [fill |-> Hex(15, 15, 15, 3, 14, 0),
                           border |-> Hex(14, 6, 5, 1, 0, 0),
                           text |-> Hex(11, 15, 3, 6, 0, 12)]>>]

AgentNode(label, icon, description) == [label |-> label, icon |-> icon, description |-> description]
SceneNoAgent ==
    [title |-> Text("Agents", 36, 12), subtitle |-> NoText, nodes |-> <<>>,
     connections |-> <<>>]
SceneOneAgent ==
    [title |-> Text("Agents", 36, 12), subtitle |-> NoText,
     nodes |-> <<AgentNode(Text("Planner", 42, 12), NoIcon, NoText)>>,
     connections |-> <<>>]
SceneTwoAgents ==
    [title |-> Text("Agents", 36, 12), subtitle |-> Text("Who asks whom", 78, 12),
     nodes |-> <<AgentNode(Text("Planner", 42, 12), NoIcon, Text("Plans the work", 84, 12)),
                 AgentNode(Text("Worker", 36, 12), "server", Text("Does the work", 78, 12))>>,
     connections |-> <<[from_node |-> 2, to_node |-> 1, label |-> "asks"]>>]

WhiteboardCall(data, width, height, theme) == [fn |-> "render_multi_agent", data |-> data, width |-> width, height |-> height, theme |-> theme]
GridCall(n, canvas_w, canvas_h) == [fn |-> "layout_grid", n |-> n, canvas_w |-> canvas_w, canvas_h |-> canvas_h]
SdRenders ==
    {WhiteboardCall(SceneOneAgent, DefaultCanvasW, DefaultCanvasH, ThemePlain),
     WhiteboardCall(SceneTwoAgents, DefaultCanvasW, DefaultCanvasH, ThemeSections),
     WhiteboardCall(SceneNoAgent, 800, 600, ThemeSections)}
SdLayouts == {GridCall(4, DefaultCanvasW, DefaultCanvasH)}

NoneKept == [kept |-> FALSE]
Kept(call, result) == [kept |-> TRUE, call |-> call, result |-> result, others |-> FALSE]
\* a call has ended after the render that is kept
Followed == IF sd_log.kept THEN [sd_log EXCEPT !.others = TRUE] ELSE sd_log
\* the render that has just ended is kept for comparison, or it is one more
\* call that has ended after the render that is kept
Noted(keep) ==
    IF keep
    THEN /\ sd_stage.at = "done"
         /\ sd_stage.call.fn = "render_multi_agent"
         /\ sd_log' = Kept(sd_stage.call, sd_stage.result)
    ELSE sd_log' = IF sd_stage.at = "done" THEN Followed ELSE sd_log

Finished(call, result) == [at |-> "done", call |-> call, result |-> result]

InitSeed ==
    /\ OthersIdle("sd")
    /\ sd_stage = [at |-> "idle"]
    /\ sd_rng = StartRandom
    /\ sd_log = NoneKept

\* _render_whiteboard up to the simulation loop of layout_force_directed: the
\* header is drawn; a scene without nodes is returned as it is, otherwise the
\* generator is seeded and the start positions are drawn from it
WhiteboardBegin ==
    /\ sd_stage.at \in {"idle", "done"}
    /\ \E call \in SdRenders, keep \in BOOLEAN :
          /\ Noted(keep)
          /\ IF call.data.nodes = <<>>
             THEN /\ sd_stage' = Finished(call,
                         [positions |-> <<>>,
                          image |-> _render_whiteboard_header(call.data, call.width,
                                                              call.height, call.theme)])
                  /\ sd_rng' = sd_rng
             ELSE /\ Drawable(seed(sd_rng, ForceSeed), 2 * Len(call.data.nodes))
                  /\ sd_rng' = Advance(seed(sd_rng, ForceSeed), 2 * Len(call.data.nodes))
                  /\ sd_stage' =
                        [at |-> "simulating", call |-> call, iteration |-> 0,
                         image |-> _render_whiteboard_header(call.data, call.width,
                                                             call.height, call.theme),
                         repulsion_k |-> ForceRepulsion(Len(call.data.nodes), call.width,
                                             call.height, 70,
                                             _render_whiteboard_header_h(call.data)),
                         pos |-> SeededStart(seed(sd_rng, ForceSeed), Len(call.data.nodes),
                                             call.width, call.height, 70,
                                             _render_whiteboard_header_h(call.data))]
    /\ UNCHANGED notSd

\* one iteration of the simulation loop
WhiteboardIteration ==
    /\ sd_stage.at = "simulating"
    /\ ForceRuns(sd_stage.iteration, ForceIterations)
    /\ sd_stage' = [sd_stage EXCEPT
           !.iteration = @ + 1,
           !.pos = ForceIterate(sd_stage.pos, sd_stage.call.data.connections,
                       sd_stage.repulsion_k, ForceTemp(sd_stage.iteration, ForceIterations),
                       sd_stage.call.width, sd_stage.call.height, 70,
                       _render_whiteboard_header_h(sd_stage.call.data), 170, 100)]
    /\ UNCHANGED <<sd_rng, sd_log, notSd>>

\* the loop has ended: the expansion, the boxes and the final resolve_overlaps
\* give the positions, and the arrows and the nodes are drawn on them
WhiteboardFinish ==
    /\ sd_stage.at = "simulating"
    /\ ~ForceRuns(sd_stage.iteration, ForceIterations)
    /\ sd_stage' = Finished(sd_stage.call,
           WhiteboardResult(sd_stage.call, sd_stage.image,
               layout_force_directed(
                   ForceCentres(ForceExpand(sd_stage.pos, sd_stage.call.width,
                                    sd_stage.call.height, 70,
                                    _render_whiteboard_header_h(sd_stage.call.data),
                                    170, 100)),
                   170, 100)))
    /\ UNCHANGED <<sd_rng, sd_log, notSd>>

\* a layout that draws no random value
CallGridBetween ==
    /\ sd_stage.at \in {"idle", "done"}
    /\ \E call \in SdLayouts, keep \in BOOLEAN :
          /\ Noted(keep)
          /\ sd_stage' = Finished(call,
                 [positions |-> layout_grid(IdSeq(call.n), call.canvas_w, call.canvas_h, 3,
                                    GridMargin, GridHeaderH, GridRowGap, GridColGap,
                                    GridFooterH, NoHeights),
                  image |-> <<>>])
    /\ UNCHANGED <<sd_rng, notSd>>

NextSeed ==
    \/ WhiteboardBegin
    \/ WhiteboardIteration
    \/ WhiteboardFinish
    \/ CallGridBetween

SpecSeed == InitSeed /\ [][NextSeed]_vars

(***************************************************************************)
(* Claims about resolve_overlaps (checked under SpecResolve)               *)
(***************************************************************************)
\* two boxes intersect once each is expanded by p on every side
Intersect(a, b, p) ==
    /\ a[1] - p < b[1] + b[3] + p
    /\ b[1] - p < a[1] + a[3] + p
    /\ a[2] - p < b[2] + b[4] + p
    /\ b[2] - p < a[2] + a[4] + p

NoIntersection(pos, p) ==
    \A i \in 1..Len(pos) : \A j \in (i + 1)..Len(pos) : ~Intersect(pos[i], pos[j], p)

EndedEarly(run) == run.passes >= 1 /\ ~run.moved

\* C5 as stated: resolve_overlaps stops after at most max_iterations passes, and
\* on return either no two boxes intersect once each is expanded by padding, or
\* the loop ended early on a pass that moved nothing.
C5_Original ==
    ro_stage # "input" =>
        /\ ro_once.passes <= ro_mi
        /\ NoIntersection(ro_once.pos, RoPadding) \/ EndedEarly(ro_once)

\* C5 amended: resolve_overlaps stops after at most max_iterations passes, and
\* on return either no two boxes intersect once each is expanded by padding, or
\* all max_iterations passes were run and the last one still pushed a pair apart.
C5_Termination ==
    ro_stage # "input" =>
        /\ ro_once.passes <= ro_mi
        /\ \/ NoIntersection(ro_once.pos, RoPadding)
           \/ ro_once.passes = ro_mi /\ ro_once.moved

\* two boxes sharing one position went in, every pass was used, an overlap is left
C5_Witness ==
    /\ ro_stage = "once"
    /\ Len(ro_in) >= 2
    /\ ro_in[1] = ro_in[2]
    /\ ro_once.passes = ro_mi
    /\ ~NoIntersection(ro_once.pos, RoPadding)

\* C6 as stated: running resolve_overlaps on its own output with the same
\* padding, max_iterations and canvas returns that output unchanged.
C6_Original == ro_stage = "twice" => ro_twice.pos = ro_once.pos

\* C6 amended: running resolve_overlaps on its own output with the same padding,
\* max_iterations and canvas returns that output unchanged whenever no two boxes
\* of that output intersect once each is expanded by padding.
C6_Idempotent ==
    (ro_stage = "twice" /\ NoIntersection(ro_once.pos, RoPadding)) =>
        ro_twice.pos = ro_once.pos

\* the first call moved boxes and separated them; the second call has run
C6_Witness ==
    /\ ro_stage = "twice"
    /\ Len(ro_in) >= 2
    /\ ro_once.pos # ro_in
    /\ NoIntersection(ro_once.pos, RoPadding)
    /\ ro_twice.pos = ro_once.pos

\* C7 as stated: if no two boxes of the input intersect, resolve_overlaps returns
\* every box with its x, y, width and height unchanged.
C7_Original ==
    (ro_stage = "once" /\ NoIntersection(ro_in, 0)) => ro_once.pos = ro_in

\* C7 amended: if no two boxes of the input intersect once each is expanded by
\* padding, resolve_overlaps returns every box with its x, y, width and height
\* unchanged.
C7_ZeroOp ==
    (ro_stage = "once" /\ NoIntersection(ro_in, RoPadding)) => ro_once.pos = ro_in

\* several boxes, padded apart, went through the pass over the pairs
C7_Witness ==
    /\ ro_stage = "once"
    /\ Len(ro_in) >= 2
    /\ NoIntersection(ro_in, RoPadding)
    /\ ro_once.passes = 1

(***************************************************************************)
(* C8: the shape of the grid.                                              *)
(***************************************************************************)
GridRan == lay_call.fn \in {"grid", "grid_nodes"}

\* the number of distinct values of coordinate c (1 = x, 2 = y) that lie below v
Below(pos, c, v) == Cardinality({pos[id][c] : id \in {j \in DOMAIN pos : pos[j][c] < v}})

\* C8: for n >= 1 ids and cols >= 1, layout_grid returns a box for exactly the n
\* ids; with c = min(cols, n), the boxes take c distinct x and ceil(n / c)
\* distinct y, the i-th id sits in column (i - 1) mod c and row (i - 1) div c
\* counted from the left and from the top; two boxes of one row have the same y
\* and the same height, and their horizontal extents do not overlap
C8_GridShape ==
    GridRan =>
        LET n == lay_call.n
            c == Min(lay_call.k, n)
        IN  /\ DOMAIN lay_pos = 1..n
            /\ Cardinality({BoxX(lay_pos[i]) : i \in 1..n}) = c
            /\ Cardinality({BoxY(lay_pos[i]) : i \in 1..n}) = CeilDiv(n, c)
            /\ \A i \in 1..n :
                /\ Below(lay_pos, 1, BoxX(lay_pos[i])) = (i - 1) % c
                /\ Below(lay_pos, 2, BoxY(lay_pos[i])) = (i - 1) \div c
            /\ \A i, j \in 1..n :
                (i < j /\ (i - 1) \div c = (j - 1) \div c) =>
                    /\ BoxY(lay_pos[i]) = BoxY(lay_pos[j])
                    /\ BoxH(lay_pos[i]) = BoxH(lay_pos[j])
                    /\ BoxX(lay_pos[i]) + BoxW(lay_pos[i]) <= BoxX(lay_pos[j])

\* the content-aware grid has run on 6 nodes in 3 columns on the default
\* canvas: two rows of three, the second row below the first
C8_Witness ==
    /\ lay_call.fn = "grid_nodes"
    /\ lay_call.n = 6
    /\ lay_call.k = 3
    /\ lay_call.cw = DefaultCanvasW
    /\ BoxY(lay_pos[4]) > BoxY(lay_pos[1])
    /\ BoxX(lay_pos[2]) > BoxX(lay_pos[1])

(***************************************************************************)
(* C9: the ends and the middle of a path.                                  *)
(***************************************************************************)
\* the path has at least two waypoints and two consecutive ones differ
NonZeroLength(path) == Len(path) >= 2 /\ \E i \in 1..(Len(path) - 1) : path[i] # path[i + 1]

\* every segment is horizontal or vertical, so every length is an integer
Rectilinear(path) ==
    \A i \in 1..(Len(path) - 1) : path[i][1] = path[i + 1][1] \/ path[i][2] = path[i + 1][2]

Abs(v) == IF v < 0 THEN 0 - v ELSE v

\* exact length of segment i of a rectilinear path
StepLen(path, i) == Abs(path[i + 1][1] - path[i][1]) + Abs(path[i + 1][2] - path[i][2])

\* the pixel holding the point at half the arc length of a rectilinear path of
\* non-zero length: it is on the first segment that reaches half the length
Halfway(path) ==
    LET lens == [i \in 1..(Len(path) - 1) |-> StepLen(path, i)]
        total == SeqSum(lens)
        seg == CHOOSE i \in 1..Len(lens) :
                 /\ 2 * PrefixSum(lens, i) >= total
                 /\ \A k \in 1..(i - 1) : 2 * PrefixSum(lens, k) < total
        rest2 == total - 2 * PrefixSum(lens, seg - 1)
        Along(c) == (2 * lens[seg] * path[seg][c] + rest2 * (path[seg + 1][c] - path[seg][c]))
                        \div (2 * lens[seg])
    IN  <<Along(1), Along(2)>>

\* C9: for a path of at least two waypoints and non-zero length, the function
\* returns the first waypoint at t = 0, the last waypoint at t = 1, and at
\* t = 0.5 the point halfway along the path by arc length (compared exactly on
\* the paths whose segment lengths are integers)
C9_PointAt ==
    (ip_stage = "done" /\ NonZeroLength(ip_path)) =>
        /\ ip_t = 0 => ip_out = ip_path[1]
        /\ ip_t = 2 => ip_out = ip_path[Len(ip_path)]
        /\ (ip_t = 1 /\ Rectilinear(ip_path)) => ip_out = Halfway(ip_path)

\* C11: whenever min_h <= max_h, the height measure_node_content_height returns
\* lies between min_h and max_h, for every style variant and icon flag and
\* also for an empty or None description
C11_Clamped ==
    (me_stage = "once" /\ me_in.min_h <= me_in.max_h) =>
        /\ me_in.min_h <= me_out[1]
        /\ me_out[1] <= me_in.max_h

\* the number of lines a description wraps to: none when it is None or empty
WrappedLines(desc) == IF desc = NoDesc THEN 0 ELSE desc

\* C12: with the other arguments fixed, a description that wraps to more lines
\* than another (an empty or None description wraps to none) measures at least
\* as high, and an empty or None description measures exactly min_h when the
\* fixed allowance of the variant does not exceed min_h
C12_Monotone ==
    me_stage = "twice" =>
        /\ WrappedLines(me_in.desc) < WrappedLines(me_in.desc2)
                => me_out[1] <= me_out[2]
        /\ (me_in.desc = NoDesc
                /\ BaseHeight(me_in.has_icon, me_in.is_header_style, me_in.is_pipeline)
                        <= me_in.min_h)
                => me_out[1] = me_in.min_h

\* C13: every layout strategy called with zero nodes (an empty id list, an empty
\* layer, column or zone list, or layers and zones without members) returns an
\* empty position map and does not raise: no count it divides by is zero.
C13_NoNodes ==
    lay_call.fn # "none" => (~lay_call.raised /\ lay_pos = EmptyMap)

\* some layers or zones were passed, all of them without members
C13_Witness ==
    /\ lay_call.fn \in {"layered", "zone_based"}
    /\ lay_call.n = 0
    /\ lay_call.k >= 2
    /\ ~lay_call.raised
    /\ lay_pos = EmptyMap

(***************************************************************************)
(* Claims about the objects passed to a call (checked under SpecFrame)     *)
(***************************************************************************)
\* every object passed to the call holds what it held when the call started
ArgumentsKept == \A r \in DOMAIN fr_before : fr_heap[r] = fr_before[r]
\* the returned table is none of the objects passed to the call
ReturnsNewTable == fr_ret \notin DOMAIN fr_before

\* C14 as stated: no layout strategy and not resolve_overlaps modifies the nodes,
\* connections, layers, zones or position map passed to it, and the result is
\* returned only as a new side table.
C14_Original ==
    /\ ArgumentsKept
    /\ fr_stage = "done" => ReturnsNewTable

\* C14: no layout strategy and not resolve_overlaps modifies the nodes,
\* connections, layers, zones or position map passed to it, at any point of the
\* call; the result is returned as a new side table, except that
\* resolve_overlaps returns the position map it was passed when that map holds
\* fewer than two boxes.
C14_Frame ==
    /\ ArgumentsKept
    /\ fr_stage = "done" =>
           \/ ReturnsNewTable
           \/ fr_fn.name = "resolve_overlaps" /\ Len(fr_before[fr_ret]) < 2

\* layout_force_directed has simulated three connected nodes and returned the
\* table its final resolve_overlaps made
C14_Witness ==
    /\ fr_stage = "done"
    /\ fr_fn.name = "layout_force_directed"
    /\ fr_ret = Ref("resolve_overlaps", "return", 843)
    /\ Len(fr_heap[fr_ret]) = 3
    /\ fr_heap[Passed("connections")] = FrConnections(3)
    /\ fr_heap[fr_fn.env["positions"]] = fr_heap[fr_ret]

(***************************************************************************)
(* Claims about _manhattan_route (checked under SpecRoute)                 *)
(***************************************************************************)
\* two waypoints differ in at most one coordinate
AxisAligned(p, q) == p[1] = q[1] \/ p[2] = q[2]

\* C15: for every start and end point, the Manhattan route has 2 or 4 waypoints,
\* begins exactly at start, ends exactly at end, and every two consecutive
\* waypoints differ in only one coordinate.
C15_Route ==
    mr_stage = "done" =>
        /\ Len(mr_out) \in {2, 4}
        /\ mr_out[1] = mr_in.start
        /\ mr_out[Len(mr_out)] = mr_in.end
        /\ \A i \in 1..(Len(mr_out) - 1) : AxisAligned(mr_out[i], mr_out[i + 1])

(***************************************************************************)
(* Claims about draw_connection (checked under SpecConnect)                *)
(***************************************************************************)
\* C16: for every connection style and every routing mode, a connection whose
\* start and end anchor points are less than 5 px apart is skipped entirely:
\* nothing is drawn for it (no line, arrowhead or badge).
C16_ShortSkipped ==
    (dc_stage = "done" /\ SqDist(dc_in.start, dc_in.end) < 25) => dc_out = <<>>

(***************************************************************************)
(* Claims about draw_node (checked under SpecNode)                         *)
(***************************************************************************)
\* the text lines among what was drawn
TextDrawn == SelectSeq(dn_out, LAMBDA d : d.what = "text")
HasDescription == dn_in.description # NoDesc /\ dn_in.description > 0
\* every wrapped line of the description was drawn, none of them marked
DrawnInFull ==
    /\ Len(TextDrawn) = dn_in.description
    /\ \A i \in 1..Len(TextDrawn) : ~TextDrawn[i].ellipsis

\* C17: whenever a node's description is not drawn in full (it wraps to more
\* lines than the node allows, or the node is too short to show a description),
\* the text that is drawn ends with an ellipsis: a description is never cut or
\* dropped without that marker.
C17_Ellipsis ==
    (dn_stage = "done" /\ HasDescription /\ ~DrawnInFull) =>
        (TextDrawn # <<>> /\ TextDrawn[Len(TextDrawn)].ellipsis)

(***************************************************************************)
(* Claims about layout_force_directed (checked under SpecForce)            *)
(***************************************************************************)
\* C18: for any canvas size passed by the caller, every box returned by
\* layout_force_directed, after its final overlap-resolution pass, lies inside
\* that canvas and below the header: margin <= x, x + w <= canvas_w - margin,
\* header_h <= y and y + h <= canvas_h - margin.
C18_InsideCanvas ==
    fd_stage = "done" =>
        \A i \in 1..Len(fd_out) :
            /\ ForceMargin <= BoxX(fd_out[i])
            /\ BoxX(fd_out[i]) + BoxW(fd_out[i]) <= fd_in.canvas[1] - ForceMargin
            /\ ForceHeaderH <= BoxY(fd_out[i])
            /\ BoxY(fd_out[i]) + BoxH(fd_out[i]) <= fd_in.canvas[2] - ForceMargin

(***************************************************************************)
(* Claims about the ids of a position map (checked under SpecScene)        *)
(***************************************************************************)
\* C19: for every layout strategy, the set of ids in the returned position map
\* equals the set of node ids of the scene: no node is left without a box and
\* no id that is not a node receives a box.
C19_IdsAreNodes ==
    sc_stage = "done" => DOMAIN sc_out = NodeIdSet(SceneNodes)

(***************************************************************************)
(* Claims about the fan-out (checked under SpecFan)                        *)
(***************************************************************************)
FanK == Len(fo_in.siblings)
FanRan == fo_stage = "done" /\ FanK >= 2
OnEdge ==
    \A c \in 1..FanK :
        /\ BoxX(fo_in.from_pos) <= fo_out[c][1]
        /\ fo_out[c][1] <= BoxX(fo_in.from_pos) + BoxW(fo_in.from_pos)
        /\ fo_out[c][2] = IF fo_in.down THEN BoxY(fo_in.from_pos) + BoxH(fo_in.from_pos)
                          ELSE BoxY(fo_in.from_pos)
PairwiseDistinct == \A i, j \in 1..FanK : i # j => fo_out[i] # fo_out[j]
EvenlySpaced ==
    \A c \in 1..(FanK - 2) :
        fo_out[c + 1][1] - fo_out[c][1] = fo_out[c + 2][1] - fo_out[c + 1][1]
\* twice the distance from the centre of the exit points to x + w // 2, signed
OffCentre2 ==
    fo_out[1][1] + fo_out[FanK][1]
        - 2 * (BoxX(fo_in.from_pos) + BoxW(fo_in.from_pos) \div 2)

\* C20: with k >= 2 outgoing connections in the same vertical direction, the k
\* exit points lie on that edge of the source box, are pairwise distinct and
\* evenly spaced, and are centred on the midpoint of the edge: their centre lies
\* on x + w // 2, up to the rounding of the integer step, (k - 1) / 2 px.
C20_FanOut ==
    FanRan =>
        /\ OnEdge
        /\ PairwiseDistinct
        /\ EvenlySpaced
        /\ OffCentre2 <= 0
        /\ 0 - OffCentre2 <= FanK - 1

(***************************************************************************)
(* Claims about _auto_crop (checked under SpecCrop)                        *)
(***************************************************************************)
CropRan == ac_stage = "done"
Committed == CropRan /\ ac_out # ac_in.img
\* the returned image is the part [0, new_w) x [0, new_h) of the input
TopLeftPart ==
    /\ ac_out.width <= ac_in.img.width
    /\ ac_out.height <= ac_in.img.height
    /\ ac_out.marks = {m \in ac_in.img.marks : m.x < ac_out.width /\ m.y < ac_out.height}
RemovedArea ==
    (ac_in.img.width * ac_in.img.height) - (ac_out.width * ac_out.height)
Removed == ac_in.img.marks \ ac_out.marks

\* C10 as stated: auto-crop returns the image unchanged or its top-left part
\* [0, new_w) x [0, new_h) with new_w <= width and new_h <= height; a crop is
\* committed only when it removes at least 15% of the area, and a committed crop
\* removes no pixel that differs from the background.
C10_Original ==
    Committed =>
        /\ TopLeftPart
        /\ 100 * RemovedArea >= 15 * (ac_in.img.width * ac_in.img.height)
        /\ Removed = {}

\* C10: auto-crop returns the image unchanged or its top-left part
\* [0, new_w) x [0, new_h) with new_w <= width and new_h <= height; a crop is
\* committed only when it removes at least 15% of the area, and a committed crop
\* removes no pixel whose grey-level difference from the background exceeds 5.
C10_AutoCrop ==
    Committed =>
        /\ TopLeftPart
        /\ 100 * RemovedArea >= 15 * (ac_in.img.width * ac_in.img.height)
        /\ \A m \in Removed : Luma(m.d) <= CropThreshold

\* content ending in column 1164 with margin 25: exactly 15% is removed, and a
\* faint pixel in the last column goes with it
C10_Witness ==
    /\ Committed
    /\ ac_out.width = 1190
    /\ ac_out.height = ac_in.img.height
    /\ \E m \in Removed : m.x = 1399
    /\ \E m \in ac_out.marks : m.x = 1164

(***************************************************************************)
(* Claims about connections to ids that are not nodes (SpecDangling)       *)
(***************************************************************************)
Dangling(conn) ==
    conn.from_node \notin NodeIdSet(dg_in.nodes) \/ conn.to_node \notin NodeIdSet(dg_in.nodes)
Arrows == {dg_out[a] : a \in 1..Len(dg_out)}

\* C3: a connection whose from_node or to_node is not the id of a node is never
\* drawn: no arrow drawn carries its label or runs to or from its missing end.
C3_NeverDrawn ==
    dg_stage \in {"pipeline", "architecture"} =>
        \A c \in 1..Len(dg_in.connections) :
            Dangling(dg_in.connections[c]) =>
                \A arrow \in Arrows :
                    /\ arrow.label # dg_in.connections[c].label
                    /\ arrow.from_node \in NodeIdSet(dg_in.nodes)
                    /\ arrow.to_node \in NodeIdSet(dg_in.nodes)

(***************************************************************************)
(* Claims about repeated renders (checked under SpecSeed)                  *)
(***************************************************************************)
RepeatedCall ==
    /\ sd_stage.at = "done"
    /\ sd_log.kept
    /\ sd_log.call = sd_stage.call

\* C4: two renders of the same scene with the same canvas size and theme give
\* the same node positions and the same image, force-directed layout included,
\* whatever was rendered or laid out in between.
C4_Repeatable == RepeatedCall => sd_stage.result = sd_log.result

\* the scene of two connected agents is rendered, then something else, then the
\* same scene again: the force-directed layout puts the two cards where it put
\* them the first time, and arrow and cards are drawn on them
C4_Witness ==
    /\ RepeatedCall
    /\ sd_log.others
    /\ sd_stage.call.fn = "render_multi_agent"
    /\ sd_stage.call.data = SceneTwoAgents
    /\ sd_rng = [seed |-> ForceSeed, drawn |-> 4]
    /\ sd_stage.result.positions = <<Box(1069, 110, 170, 100), Box(124, 519, 170, 100)>>
    /\ Len(sd_stage.result.image) = 14
    /\ sd_stage.result.image[6].op = "draw_bezier_arrow"
    /\ sd_stage.result.image[6].start = <<1069, 160>>
    /\ sd_stage.result.image[6].end = <<294, 569>>

(***************************************************************************)
(* Claims about rendering as a whole (checked under SpecRender)            *)
(***************************************************************************)
\* C2: rendering a structurally valid scene graph returns an image and never
\* raises (here: a pipeline scene in the guidebook theme).
C2_NeverRaises == rp_stage = "done" => ~rp_out.raised

(***************************************************************************)
(* Claims about an added dangling connection (checked under SpecAdded)     *)
(***************************************************************************)
\* C21: adding a connection with a non-existent endpoint leaves the drawing of
\* every other connection unchanged: the same arrows are drawn, each with the
\* same start point, end point and step number.
C21_OthersUnchanged == dl_stage = "done" => dl_out.with = dl_out.without

(***************************************************************************)
(* Claims about the size of the boxes (checked under SpecLayout)           *)
(***************************************************************************)
\* C22: every box returned by a layout strategy for 1 to 50 nodes on the
\* default 1400x900 canvas has width > 0 and height > 0.
C22_PositiveSize ==
    (lay_call.fn # "none" /\ lay_call.cw = DefaultCanvasW /\ lay_call.ch = DefaultCanvasH) =>
        \A id \in DOMAIN lay_pos : BoxW(lay_pos[id]) > 0 /\ BoxH(lay_pos[id]) > 0

\* the arrowheads and the straight lines among what was drawn
Arrowheads == SelectSeq(dc_out, LAMBDA d : d = "polygon")
StraightLines == SelectSeq(dc_out, LAMBDA d : d = "line")

\* C23: a connection whose style is bidirectional is drawn as two arrows in
\* opposite directions, each a line with its arrowhead, under every routing
\* mode (the end points being different).
C23_Bidirectional ==
    (dc_stage = "done" /\ dc_in.style = "bidirectional" /\ dc_in.start # dc_in.end) =>
        Len(Arrowheads) = 2 /\ Len(StraightLines) = 2

(***************************************************************************)
(* Claims about the label pill (SpecPill)                                  *)
(***************************************************************************)
LightPill == lp_out.fill = PillWhite /\ lp_out.outline = lp_in
DarkPill == lp_out.fill = PillDark /\ lp_out.outline = PillDarkOutline

\* C24: the pill follows the luminance 0.299R + 0.587G + 0.114B of the line
\* colour against the threshold 60, and with it a vivid or medium line colour
\* (#2B7DE9, #E8833A, #4CAF50) gets the light pill and the muted gray default
\* line colour #94A3B8 gets the dark pill.
C24_PillByLuminance ==
    lp_stage = "done" =>
        /\ LightPill <=> is_light_bg(lp_in)
        /\ DarkPill <=> ~is_light_bg(lp_in)
        /\ lp_in \in {Blue, Orange, Green} => LightPill
        /\ lp_in = MutedGray => DarkPill

(***************************************************************************)
(* Claims about the animator (SpecAnimate)                                 *)
(***************************************************************************)
\* C25: for every scene type and canvas size, the node boxes and the start and
\* end points of the connections along which the animator moves the data-flow
\* dots equal the ones the static renderer drew for the same scene.
C25_SameGeometry ==
    am_stage = "done" =>
        /\ am_out.animated.boxes = am_out.drawn.boxes
        /\ am_out.animated.arrows = am_out.drawn.arrows

(***************************************************************************)
(* Claims about the agent pipeline (SpecPipeline)                          *)
(***************************************************************************)
RunEnded == pl_stage \in {"returned", "raised", "summarized"}
OutputsSet ==
    /\ pl_ctx.research_findings # NoFindings
    /\ pl_ctx.infographic_data # "none"
    /\ pl_ctx.render_result.file # "none"

\* C26: a run ends in one of two ways: it returns with stage COMPLETED and the
\* three agent outputs set, or the exception of the Structure or the Render
\* agent reaches the caller with stage FAILED and at least one error recorded;
\* either way the total_pipeline timing is recorded.
C26_TwoEndings ==
    RunEnded =>
        /\ \/ /\ ~pl_env.exc.raised
              /\ pl_ctx.stage = "completed"
              /\ OutputsSet
           \/ /\ pl_env.exc.raised
              /\ pl_env.exc.by \in {"structure", "render"}
              /\ pl_ctx.stage = "failed"
              /\ Len(pl_ctx.errors) >= 1
        /\ "total_pipeline" \in DOMAIN pl_ctx.timings

ResearchDegraded == ~pl_ctx.enable_research \/ pl_env.research_raised
ResearchWarnings == {ResearchSkipped, ResearchAgentFailed}
StructureOrRenderErrors ==
    {StructureAgentFailed, StructureAgentRetryFailed, RenderAgentFailed, RenderAgentNoData,
     PipelineFailed}
BeginsWithOneOf(text, prefixes) == \E p \in prefixes : StartsWith(text, p)

\* C27: when the Research Agent raises or research is disabled, the research
\* step leaves default findings and a warning and no error, the run goes on to
\* the Structure and Render agents, which work from the default findings, and
\* no exception of the research step reaches the caller.
C27_ResearchDegrades ==
    pl_stage \notin {"idle", "start"} /\ ResearchDegraded =>
        /\ pl_ctx.research_findings = _default_findings
        /\ \E w \in 1..Len(pl_ctx.warnings) :
               BeginsWithOneOf(pl_ctx.warnings[w], ResearchWarnings)
        /\ \A e \in 1..Len(pl_ctx.errors) :
               BeginsWithOneOf(pl_ctx.errors[e], StructureOrRenderErrors)
        /\ pl_stage = "researched" => ~pl_env.exc.raised /\ pl_ctx.stage # "failed"
        /\ pl_env.exc.raised => pl_env.exc.by # "research"

\* the Research Agent raised and the run finished in stage COMPLETED
C27_Witness ==
    /\ pl_env.research_raised
    /\ pl_stage = "returned"
    /\ pl_ctx.stage = "completed"
    /\ pl_ctx.research_findings = _default_findings
    /\ pl_ctx.infographic_data # "none"
    /\ pl_ctx.render_result.file # "none"

PassScore == 70
Retried == "structure_retry" \in DOMAIN pl_ctx.timings

\* C28: when the quality check has run, the Structure Agent is re-run and the
\* scene rendered again exactly when the score of the report is below 0.7, never
\* when it is 0.7 or more; retry_count never exceeds max_retries.
C28_RetryBelowThreshold ==
    /\ RunEnded /\ pl_env.checked => (Retried <=> pl_env.report.score < PassScore)
    /\ pl_stage # "idle" => pl_ctx.retry_count <= pl_ctx.max_retries

Reported(name, status) ==
    \E i \in 1..Len(pl_out.summary.pipeline_steps) :
        /\ pl_out.summary.pipeline_steps[i].name = name
        /\ pl_out.summary.pipeline_steps[i].status = status

\* C29: in the summary a step is reported completed only if its agent did not
\* raise, and the step whose exception failed the pipeline is reported failed.
C29_FailedStepReported ==
    pl_stage = "summarized" /\ pl_env.exc.raised /\ pl_env.exc.by \in {"structure", "render"} =>
        /\ ~Reported(pl_env.exc.by, "completed")
        /\ Reported(pl_env.exc.by, "failed")

\* C30: after a run total_time, and the total_time of the summary, is the
\* duration recorded under total_pipeline: no step is counted twice.
C30_TotalIsPipelineTime ==
    pl_stage = "summarized" =>
        /\ pl_out.total_time = pl_ctx.timings["total_pipeline"]
        /\ pl_out.summary.total_time = Round2(pl_ctx.timings["total_pipeline"])

====
